---- MODULE Spec2Model ----
(***************************************************************************)
(* A model of the numeric algebra engine: fixed-length vectors, row-major  *)
(* matrices with a stored row count, matrix multiplication with            *)
(* compensated summation, determinant by elimination with partial          *)
(* pivoting, transpose and row swap, matrix addition and the Hadamard      *)
(* product, the reductions, the checked accessors, the tensor of depth     *)
(* slices, and the TensorError results they return.                        *)
(*                                                                         *)
(* Indices in operation arguments and error payloads are the 0-based       *)
(* indices of the source; the stored sequences are 1-based, so element i   *)
(* of the source is element i + 1 here.                                    *)
(*                                                                         *)
(* Element values are kept far below the range of the 32-bit element       *)
(* types, so integer arithmetic is modelled by exact integers; the         *)
(* idealised (rounding-free) floating-point element type used by the       *)
(* determinant is modelled by normalised fractions <<num, den>>.           *)
(***************************************************************************)
EXTENDS Integers, Sequences, FiniteSets, TLC

(* ----------------------------- bounds --------------------------------- *)

\* Largest row count and column count of the matrices enumerated for
\* transpose and swap_rows.
MaxRows == 3

MaxCols == 2

\* Largest row count and column count of the matrices enumerated for the
\* determinant.
MaxDim == 2

\* Matrix multiplication of an R x N by an S x M matrix: R and M range up
\* to MulOuter, N and S up to MulInner.
MulOuter == 1

MulInner == 2

\* Largest length of the vectors enumerated for the vector operators.
MaxLen == 3

\* Elements of the enumerated vectors, and the scalars.
VecElems == {-3, -1, 0, 2}

\* Elements of the matrices enumerated for transpose and swap_rows, which
\* only move elements.
ShapeElems == {0, 1}

\* Elements of the matrices enumerated for multiplication.
MulElems == {-1, 2}

\* Elements of the matrices enumerated for the determinant.
DetElems == {-1, 0, 2}

(* ------------------------- results and errors ------------------------- *)

Ok(v) == [tag |-> "Ok", value |-> v]

Err(e) == [tag |-> "Err", error |-> e]

DimensionMismatch(expected, found, operation) ==
    [kind |-> "DimensionMismatch", expected |-> expected, found |-> found,
     operation |-> operation]

OutOfBounds(index, size) ==
    [kind |-> "OutOfBounds", index |-> index, size |-> size]

DivisionByZero == [kind |-> "DivisionByZero"]

\* usize::to_string: the decimal digits of n.
to_string(n) == ToString(n)

\* format!("{}x{}", r, c)
format_shape(r, c) == to_string(r) \o "x" \o to_string(c)

(* --------------------- integer element arithmetic --------------------- *)

\* i32::zero / i32::default, i32::one, i32::is_zero.
zero == 0

one == 1

is_zero(x) == x = 0

\* Division of the integer element types truncates toward zero.
int_div(a, b) ==
    IF a >= 0
    THEN (IF b > 0 THEN a \div b ELSE -(a \div (-b)))
    ELSE (IF b > 0 THEN -((-a) \div b) ELSE (-a) \div (-b))

(* ------------- exact (rounding-free) element arithmetic --------------- *)
(* A value is <<num, den>> with den > 0 and gcd(num, den) = 1.             *)

RECURSIVE GCD(_, _)
GCD(a, b) == IF b = 0 THEN a ELSE GCD(b, a % b)

IntAbs(x) == IF x < 0 THEN -x ELSE x

Norm(n, d) ==
    LET g == GCD(IntAbs(n), IntAbs(d))
        s == IF d < 0 THEN -1 ELSE 1
    IN  <<(s * n) \div g, (s * d) \div g>>

Exact(n) == <<n, 1>>

exact_zero == Exact(0)

exact_one == Exact(1)

\* is_zero that also holds of negative values.
exact_is_zero_nonpositive(x) == x[1] <= 0

exact_is_zero(x) == x = exact_zero

exact_abs(x) == <<IntAbs(x[1]), x[2]>>

exact_neg(x) == <<-x[1], x[2]>>

exact_add(x, y) == Norm(x[1] * y[2] + y[1] * x[2], x[2] * y[2])

exact_sub(x, y) == Norm(x[1] * y[2] - y[1] * x[2], x[2] * y[2])

exact_mul(x, y) == Norm(x[1] * y[1], x[2] * y[2])

\* Only applied to a nonzero divisor.
exact_div(x, y) == Norm(x[1] * y[2], x[2] * y[1])

exact_gt(x, y) == x[1] * y[2] > y[1] * x[2]

(* ------------------------------ Vector -------------------------------- *)
(* A Vector<T, N> is its array `data`: a sequence of length N.             *)

\* Vector::new(): [T::default(); N]
Vector_new(N) == [i \in 1..N |-> zero]

Vector_add(self, rhs) == [i \in 1..Len(self) |-> self[i] + rhs[i]]

Vector_sub(self, rhs) == [i \in 1..Len(self) |-> self[i] - rhs[i]]

Vector_mul(self, rhs) == [i \in 1..Len(self) |-> self[i] * rhs[i]]

\* div_loop stopping at a zero divisor with what it has written so far.
RECURSIVE div_loop_partial(_, _, _, _)
div_loop_partial(self, rhs, i, result) ==
    IF i > Len(self) THEN Ok(result)
    ELSE IF is_zero(rhs[i]) THEN Ok(result)
    ELSE div_loop_partial(self, rhs, i + 1,
                          [result EXCEPT ![i] = int_div(self[i], rhs[i])])

\* The loop of Vector::div from (1-based) position i on, `result` holding
\* the quotients written so far.
RECURSIVE div_loop(_, _, _, _)
div_loop(self, rhs, i, result) ==
    IF i > Len(self) THEN Ok(result)
    ELSE IF is_zero(rhs[i]) THEN Err(DivisionByZero)
    ELSE div_loop(self, rhs, i + 1,
                  [result EXCEPT ![i] = int_div(self[i], rhs[i])])

Vector_div(self, rhs) == div_loop(self, rhs, 1, Vector_new(Len(self)))

\* scalar_div testing the scalar inside the element loop.
Vector_scalar_div_in_loop(self, scalar) ==
    IF Len(self) > 0 /\ is_zero(scalar) THEN Err(DivisionByZero)
    ELSE Ok([i \in 1..Len(self) |-> int_div(self[i], scalar)])

\* scalar_div(&self, scalar)
Vector_scalar_div(self, scalar) ==
    IF is_zero(scalar) THEN Err(DivisionByZero)
    ELSE Ok([i \in 1..Len(self) |-> int_div(self[i], scalar)])

(* ------------------------------ Matrix -------------------------------- *)
(* A Matrix<T, N> is [data, rows, N]: the row vectors, the stored row      *)
(* count, and the column count N of its type.                              *)

Matrix_new(rows, N) ==
    [data |-> [i \in 1..rows |-> Vector_new(N)], rows |-> rows, N |-> N]

\* from_vectors taking the row count from the column count of the type.
from_vectors_rows_from_type(vectors, N) ==
    [data |-> vectors, rows |-> N, N |-> N]

\* Matrix::from_vectors(vectors)
from_vectors(vectors, N) ==
    [data |-> vectors, rows |-> Len(vectors), N |-> N]

shape(self) == <<self.rows, self.N>>

\* vec_swap overwriting position a without saving it.
vec_swap_overwrite(data, a, b) == [data EXCEPT ![a + 1] = data[b + 1]]

\* Vec::swap on 0-based positions a and b.
vec_swap(data, a, b) ==
    [data EXCEPT ![a + 1] = data[b + 1], ![b + 1] = data[a + 1]]

\* swap_rows whose second check reports the first index.
swap_rows_wrong_index(self, row1, row2) ==
    IF row1 >= self.rows
    THEN [ret |-> Err(OutOfBounds(to_string(row1), to_string(self.rows))),
          self |-> self]
    ELSE IF row2 >= self.rows
    THEN [ret |-> Err(OutOfBounds(to_string(row1), to_string(self.rows))),
          self |-> self]
    ELSE [ret |-> Ok(<<>>),
          self |-> [self EXCEPT !.data = vec_swap(self.data, row1, row2)]]

\* swap_rows(&mut self, row1, row2): the returned result and self afterwards.
swap_rows(self, row1, row2) ==
    IF row1 >= self.rows
    THEN [ret |-> Err(OutOfBounds(to_string(row1), to_string(self.rows))),
          self |-> self]
    ELSE IF row2 >= self.rows
    THEN [ret |-> Err(OutOfBounds(to_string(row2), to_string(self.rows))),
          self |-> self]
    ELSE [ret |-> Ok(<<>>),
          self |-> [self EXCEPT !.data = vec_swap(self.data, row1, row2)]]

\* transpose_row whose copy loop stops one row early.
transpose_row_short(self, M, i) ==
    [j \in 1..M |-> IF j < self.rows THEN self.data[j][i + 1] ELSE zero]

\* Row i (0-based) of the transposed matrix: [T::default(); M] with entry j
\* overwritten by self.data[j][i] for j < self.rows.
transpose_row(self, M, i) ==
    [j \in 1..M |-> IF j <= self.rows THEN self.data[j][i + 1] ELSE zero]

\* transpose checking M against the column count instead of the row count.
transpose_backwards(self, M) ==
    IF self.N # M
    THEN Err(DimensionMismatch("Any x " \o to_string(M),
                               format_shape(self.rows, self.N), "Transpose"))
    ELSE Ok(from_vectors([i \in 1..self.N |-> transpose_row(self, M, i - 1)], M))

\* transpose::<M>(&self)
transpose(self, M) ==
    IF self.rows # M
    THEN Err(DimensionMismatch("Any x " \o to_string(M),
                               format_shape(self.rows, self.N), "Transpose"))
    ELSE Ok(from_vectors([i \in 1..self.N |-> transpose_row(self, M, i - 1)], M))

(* --------------------------- multiplication --------------------------- *)

\* kahan_step with the sign of y wrong in the compensation.
kahan_step_wrong_sign(acc, product) ==
    LET y == product - acc.c
        t == acc.sum + y
    IN  [sum |-> t, c |-> (t - acc.sum) + y]

\* One pass of the accumulation loop body: acc = [sum, c] before the pass,
\* product = lhs[i][k] * rhs[k][j].
kahan_step(acc, product) ==
    LET y == product - acc.c
        t == acc.sum + y
    IN  [sum |-> t, c |-> (t - acc.sum) - y]

\* [sum, c] after the passes k = 0 .. n - 1 of the loop for cell (i, j).
RECURSIVE kahan_after(_, _, _, _, _)
kahan_after(lhs, rhs, i, j, n) ==
    IF n = 0 THEN [sum |-> zero, c |-> zero]
    ELSE kahan_step(kahan_after(lhs, rhs, i, j, n - 1),
                    lhs.data[i + 1][n] * rhs.data[n][j + 1])

\* mul_mismatch reporting the left operand's shape as the expected one.
mul_mismatch_lhs_shape(lhs, rhs) ==
    DimensionMismatch(format_shape(shape(lhs)[1], lhs.N),
                      format_shape(shape(rhs)[1], rhs.N),
                      "Matrix multiplication")

\* The error of the shape check: expected "NxM", found "(rhs rows)xM".
mul_mismatch(lhs, rhs) ==
    DimensionMismatch(format_shape(lhs.N, rhs.N),
                      format_shape(shape(rhs)[1], rhs.N),
                      "Matrix multiplication")

\* mat_mul_impl(lhs: &Matrix<T, N>, rhs: &Matrix<T, M>)
mat_mul_impl(lhs, rhs) ==
    IF shape(rhs)[1] # lhs.N
    THEN Err(mul_mismatch(lhs, rhs))
    ELSE LET lhs_rows == shape(lhs)[1]
             result == Matrix_new(lhs_rows, rhs.N)
         IN  Ok([result EXCEPT !.data =
                    [i \in 1..lhs_rows |->
                        [j \in 1..rhs.N |->
                            kahan_after(lhs, rhs, i - 1, j - 1, lhs.N).sum]]])

\* The four Mul implementations: &a * &b, &a * b, a * &b, a * b.
mul_ref_ref(self, rhs) == mat_mul_impl(self, rhs)

mul_ref_owned(self, rhs) == mat_mul_impl(self, rhs)

mul_owned_ref(self, rhs) == mat_mul_impl(self, rhs)

mul_owned_owned(self, rhs) == mat_mul_impl(self, rhs)

(* ---------------------------- determinant ----------------------------- *)
(* The elements are exact values; w is the working copy `lu`.              *)

\* not_square rejecting only matrices with more rows than columns.
not_square_taller(self) == shape(self)[1] > shape(self)[2]

\* let (rows, cols) = self.shape(); rows != cols
not_square(self) == shape(self)[1] # shape(self)[2]

\* select_max_row that moves on to a later row of equal absolute value.
RECURSIVE select_max_row_last_tie(_, _, _, _)
select_max_row_last_tie(w, col, i, best) ==
    IF i >= w.rows THEN best
    ELSE select_max_row_last_tie(w, col, i + 1,
            IF ~exact_gt(exact_abs(w.data[best + 1][col + 1]),
                         exact_abs(w.data[i + 1][col + 1]))
            THEN i ELSE best)

\* The inner search loop of step col from row i on: the first row among
\* col .. rows - 1 whose column entry has the largest absolute value.
RECURSIVE select_max_row(_, _, _, _)
select_max_row(w, col, i, best) ==
    IF i >= w.rows THEN best
    ELSE select_max_row(w, col, i + 1,
            IF exact_gt(exact_abs(w.data[i + 1][col + 1]),
                        exact_abs(w.data[best + 1][col + 1]))
            THEN i ELSE best)

\* eliminate_row adding the scaled pivot row instead of subtracting it.
eliminate_row_add(row, pivot_row, col, factor) ==
    [j \in 1..Len(row) |->
        IF j - 1 >= col + 1
        THEN exact_add(row[j], exact_mul(factor, pivot_row[j]))
        ELSE row[j]]

\* lu[(i, j)] = lu[(i, j)] - factor * lu[(k, j)] for j in k + 1 .. cols - 1
eliminate_row(row, pivot_row, col, factor) ==
    [j \in 1..Len(row) |->
        IF j - 1 >= col + 1
        THEN exact_sub(row[j], exact_mul(factor, pivot_row[j]))
        ELSE row[j]]

\* The elimination loop of step col: every row i in col + 1 .. rows - 1.
eliminate(w, col, p) ==
    [w EXCEPT !.data =
        [i \in 1..w.rows |->
            IF i - 1 >= col + 1
            THEN eliminate_row(w.data[i], w.data[col + 1], col,
                               exact_div(w.data[i][col + 1], p))
            ELSE w.data[i]]]

(* ------------------------------- state -------------------------------- *)

VARIABLES
    recv,     \* the receiver / left operand of the operation (self, lhs)
    other,    \* the right operand (rhs) of a binary operation
    op,       \* the last operation called: [name, args]
    ret,      \* what it returned
    old,      \* the receiver as it was when the last operation was called
    back,     \* the result of transposing the last transpose's result
    pc,       \* position inside determinant(): idle, loop, elim, done
    lu,       \* determinant(): the working copy
    det,      \* determinant(): the running determinant
    k,        \* determinant(): the current elimination step
    max_row,  \* determinant(): the pivot row selected at step k
    pivot     \* determinant(): lu[(k, k)] after the swap of step k

vars == <<recv, other, op, ret, old, back, pc, lu, det, k, max_row, pivot>>

det_vars == <<pc, lu, det, k, max_row, pivot>>

None == [tag |-> "None"]

Call(name, args) == [name |-> name, args |-> args]

\* All rows x N matrices over the element set E.
Matrices(rows, N, E) == [data : [1..rows -> [1..N -> E]], rows : {rows}, N : {N}]

MatricesUpTo(max_rows, max_N, E) ==
    UNION {Matrices(r, n, E) : r \in 0..max_rows, n \in 0..max_N}

\* A matrix literal: matrix![...] / Matrix::from_vectors(vec![...]).
Lit(vectors) == from_vectors(vectors, Len(vectors[1]))

DetIdle ==
    /\ pc = "idle" /\ lu = None /\ det = exact_one /\ k = 0
    /\ max_row = 0 /\ pivot = exact_zero

(* ----------------------- transpose and swap_rows ---------------------- *)

ShapeInit ==
    /\ recv \in MatricesUpTo(MaxRows, MaxCols, ShapeElems)
    /\ other = None
    /\ op = Call("init", <<>>)
    /\ ret = None
    /\ old = recv
    /\ back = None
    /\ DetIdle

\* recv.transpose::<M>()
Transpose(M) ==
    /\ op' = Call("transpose", <<M>>)
    /\ ret' = transpose(recv, M)
    /\ old' = recv
    /\ back' = None
    /\ UNCHANGED <<recv, other, det_vars>>

\* t.transpose::<M>() on the matrix t the last transpose returned
TransposeBack(M) ==
    /\ op.name = "transpose"
    /\ ret.tag = "Ok"
    /\ op' = Call("transpose_back", <<op.args[1], M>>)
    /\ back' = transpose(ret.value, M)
    /\ UNCHANGED <<recv, other, ret, old, det_vars>>

\* recv.swap_rows(row1, row2)
SwapRows(row1, row2) ==
    LET r == swap_rows(recv, row1, row2)
    IN  /\ op' = Call("swap_rows", <<row1, row2>>)
        /\ ret' = r.ret
        /\ recv' = r.self
        /\ old' = recv
        /\ back' = None
        /\ UNCHANGED <<other, det_vars>>

ShapeNext ==
    \/ \E M \in 0..MaxRows : Transpose(M)
    \/ \E M \in 0..MaxRows : TransposeBack(M)
    \/ \E row1 \in 0..MaxRows, row2 \in 0..MaxRows : SwapRows(row1, row2)

SpecShape == ShapeInit /\ [][ShapeNext]_vars

(* ---------------------------- determinant() --------------------------- *)

ExactVector(ints) == [j \in 1..Len(ints) |-> Exact(ints[j])]

\* A matrix literal with exact elements.
ExactLit(vectors) == Lit([i \in 1..Len(vectors) |-> ExactVector(vectors[i])])

TwoByTwo == ExactLit(<<<<1, 2>>, <<3, 4>>>>)

ThreeByThree == ExactLit(<<<<6, 1, 1>>, <<4, -2, 5>>, <<2, 8, 7>>>>)

Singular == ExactLit(<<<<1, 2>>, <<2, 4>>>>)

NotSquare == ExactLit(<<<<1, 2>>>>)

\* Rows from which further 3 x 3 inputs are assembled.
ExampleRows == {<<6, 1, 1>>, <<4, -2, 5>>, <<2, 8, 7>>, <<0, 0, 3>>, <<0, 1, -1>>}

DetExamples ==
    {TwoByTwo, ThreeByThree, Singular, NotSquare}
        \cup {ExactLit(<<r1, r2, r3>>) : r1 \in ExampleRows, r2 \in ExampleRows,
                                         r3 \in ExampleRows}

DetInit ==
    /\ recv \in MatricesUpTo(MaxDim, MaxDim, {Exact(x) : x \in DetElems})
                    \cup DetExamples
    /\ other = None
    /\ op = Call("init", <<>>)
    /\ ret = None
    /\ old = recv
    /\ back = None
    /\ DetIdle

\* recv.determinant(): the shape check, then lu = self.clone(), det = one.
DetCall ==
    /\ pc = "idle"
    /\ op' = Call("determinant", <<>>)
    /\ old' = recv
    /\ IF not_square(recv)
       THEN /\ ret' = Err(DimensionMismatch(
                          "Square Matrix",
                          format_shape(shape(recv)[1], shape(recv)[2]) \o " matrix",
                          "Determinant"))
            /\ pc' = "done"
            /\ UNCHANGED <<lu, det, k>>
       ELSE /\ ret' = None
            /\ lu' = recv
            /\ det' = exact_one
            /\ k' = 0
            /\ pc' = "loop"
    /\ UNCHANGED <<recv, other, back, max_row, pivot>>

\* Step k up to the pivot test: select max_row, swap, flip the sign, read
\* the pivot, return zero if it is zero, else multiply it into det.
DetPivot ==
    /\ pc = "loop"
    /\ k < shape(lu)[1]
    /\ LET mr == select_max_row(lu, k, k + 1, k)
           swapped == IF mr # k THEN swap_rows(lu, k, mr).self ELSE lu
           signed == IF mr # k THEN exact_mul(det, exact_neg(exact_one)) ELSE det
           p == swapped.data[k + 1][k + 1]
       IN  /\ max_row' = mr
           /\ lu' = swapped
           /\ pivot' = p
           /\ IF exact_is_zero(p)
              THEN /\ ret' = Ok(exact_zero)
                   /\ det' = signed
                   /\ pc' = "done"
              ELSE /\ det' = exact_mul(signed, p)
                   /\ pc' = "elim"
                   /\ UNCHANGED ret
    /\ UNCHANGED <<recv, other, op, old, back, k>>

\* The elimination loop of step k, then k + 1.
DetEliminate ==
    /\ pc = "elim"
    /\ lu' = eliminate(lu, k, pivot)
    /\ k' = k + 1
    /\ pc' = "loop"
    /\ UNCHANGED <<recv, other, op, ret, old, back, det, max_row, pivot>>

\* Ok(det) after the last step.
DetReturn ==
    /\ pc = "loop"
    /\ k >= shape(lu)[1]
    /\ ret' = Ok(det)
    /\ pc' = "done"
    /\ UNCHANGED <<recv, other, op, old, back, lu, det, k, max_row, pivot>>

DetNext == DetCall \/ DetPivot \/ DetEliminate \/ DetReturn

SpecDet == DetInit /\ [][DetNext]_vars

(* ------------------------------ a * b --------------------------------- *)

MulA == Lit(<<<<1, 2, 3>>, <<4, 5, 6>>>>)

MulB == Lit(<<<<7, 8>>, <<9, 10>>, <<11, 12>>>>)

MulBad == Lit(<<<<1, 0>>, <<0, 1>>>>)

MulInputs ==
    (MatricesUpTo(MulOuter, MulInner, MulElems)
        \X MatricesUpTo(MulInner, MulOuter, MulElems))
    \cup {<<MulA, MulB>>, <<MulA, MulBad>>, <<MulBad, MulBad>>}

MulInit ==
    /\ \E pair \in MulInputs : recv = pair[1] /\ other = pair[2]
    /\ op = Call("init", <<>>)
    /\ ret = None
    /\ old = recv
    /\ back = None
    /\ DetIdle

\* &recv * &other
MulRefRef ==
    /\ op.name = "init"
    /\ op' = Call("mul", <<"ref_ref">>)
    /\ ret' = mul_ref_ref(recv, other)
    /\ UNCHANGED <<recv, other, old, back, det_vars>>

\* &recv * other
MulRefOwned ==
    /\ op.name = "init"
    /\ op' = Call("mul", <<"ref_owned">>)
    /\ ret' = mul_ref_owned(recv, other)
    /\ UNCHANGED <<recv, other, old, back, det_vars>>

\* recv * &other
MulOwnedRef ==
    /\ op.name = "init"
    /\ op' = Call("mul", <<"owned_ref">>)
    /\ ret' = mul_owned_ref(recv, other)
    /\ UNCHANGED <<recv, other, old, back, det_vars>>

\* recv * other
MulOwnedOwned ==
    /\ op.name = "init"
    /\ op' = Call("mul", <<"owned_owned">>)
    /\ ret' = mul_owned_owned(recv, other)
    /\ UNCHANGED <<recv, other, old, back, det_vars>>

MulNext == MulRefRef \/ MulRefOwned \/ MulOwnedRef \/ MulOwnedOwned

SpecMul == MulInit /\ [][MulNext]_vars

(* -------------------------- vector operators -------------------------- *)

VecInit ==
    /\ \E n \in 0..MaxLen :
          /\ recv \in [1..n -> VecElems]
          /\ other \in [1..n -> VecElems]
    /\ op = Call("init", <<>>)
    /\ ret = None
    /\ old = recv
    /\ back = None
    /\ DetIdle

\* recv + other
VecAdd ==
    /\ op.name = "init"
    /\ op' = Call("vec_add", <<>>)
    /\ ret' = Vector_add(recv, other)
    /\ UNCHANGED <<recv, other, old, back, det_vars>>

\* recv - other
VecSub ==
    /\ op.name = "init"
    /\ op' = Call("vec_sub", <<>>)
    /\ ret' = Vector_sub(recv, other)
    /\ UNCHANGED <<recv, other, old, back, det_vars>>

\* recv * other
VecMul ==
    /\ op.name = "init"
    /\ op' = Call("vec_mul", <<>>)
    /\ ret' = Vector_mul(recv, other)
    /\ UNCHANGED <<recv, other, old, back, det_vars>>

\* recv / other
VecDiv ==
    /\ op.name = "init"
    /\ op' = Call("vec_div", <<>>)
    /\ ret' = Vector_div(recv, other)
    /\ UNCHANGED <<recv, other, old, back, det_vars>>

\* recv.scalar_div(scalar)
VecScalarDiv(scalar) ==
    /\ op.name = "init"
    /\ op' = Call("scalar_div", <<scalar>>)
    /\ ret' = Vector_scalar_div(recv, scalar)
    /\ UNCHANGED <<recv, other, old, back, det_vars>>

VecNext ==
    \/ VecAdd
    \/ VecSub
    \/ VecMul
    \/ VecDiv
    \/ \E scalar \in VecElems : VecScalarDiv(scalar)

SpecVec == VecInit /\ [][VecNext]_vars

(* ------------------------- Vector::from_slice ------------------------- *)

\* data.copy_from_slice(slice), the lengths being equal.
copy_from_slice(data, slice) == [i \in 1..Len(data) |-> slice[i]]

\* from_slice that accepts a short slice and leaves the rest zero-filled.
from_slice_zero_padded(slice, N) ==
    IF Len(slice) > N
    THEN Err(DimensionMismatch(to_string(N), to_string(Len(slice)),
                               "Vector::from_slice"))
    ELSE Ok([i \in 1..N |-> IF i <= Len(slice) THEN slice[i] ELSE zero])

\* Vector::<T, N>::from_slice(slice)
from_slice(slice, N) ==
    IF Len(slice) # N
    THEN Err(DimensionMismatch(to_string(N), to_string(Len(slice)),
                               "Vector::from_slice"))
    ELSE Ok(copy_from_slice(Vector_new(N), slice))

\* The slices handed to from_slice.
Slices == UNION {[1..n -> VecElems] : n \in 0..MaxLen}

SliceInit ==
    /\ recv = None
    /\ other \in Slices
    /\ op = Call("init", <<>>)
    /\ ret = None
    /\ old = None
    /\ back = None
    /\ DetIdle

\* Vector::<T, N>::from_slice(&other)
FromSlice(N) ==
    /\ op.name = "init"
    /\ op' = Call("from_slice", <<N>>)
    /\ ret' = from_slice(other, N)
    /\ UNCHANGED <<recv, other, old, back, det_vars>>

SliceNext == \E N \in 0..MaxLen : FromSlice(N)

SpecSlice == SliceInit /\ [][SliceNext]_vars

(* ----------------- Matrix addition and hadamard_product --------------- *)

\* Largest row count and column count of the matrices enumerated for
\* addition and the Hadamard product.
AddRows == 2

AddCols == 1

\* Elements of the matrices enumerated for addition.
AddElems == {-1, 2}

\* Addition that subtracts the right operand's rows.
Matrix_add_subtracts(self, rhs) ==
    IF self.rows # rhs.rows
    THEN Err(DimensionMismatch(format_shape(self.rows, self.N),
                               format_shape(rhs.rows, self.N),
                               "Matrix addition"))
    ELSE Ok([data |-> [i \in 1..self.rows |->
                          Vector_sub(self.data[i], rhs.data[i])],
             rows |-> self.rows, N |-> self.N])

\* impl Add for Matrix<T, N>: self + rhs
Matrix_add(self, rhs) ==
    IF self.rows # rhs.rows
    THEN Err(DimensionMismatch(format_shape(self.rows, self.N),
                               format_shape(rhs.rows, self.N),
                               "Matrix addition"))
    ELSE Ok([data |-> [i \in 1..self.rows |->
                          Vector_add(self.data[i], rhs.data[i])],
             rows |-> self.rows, N |-> self.N])

\* A Hadamard product that reports the left operand's shape as found.
hadamard_product_found_lhs(self, rhs) ==
    IF self.rows # rhs.rows
    THEN Err(DimensionMismatch(format_shape(self.rows, self.N),
                               format_shape(self.rows, self.N),
                               "Hadamard product"))
    ELSE Ok([data |-> [i \in 1..self.rows |->
                          Vector_mul(self.data[i], rhs.data[i])],
             rows |-> self.rows, N |-> self.N])

\* Matrix::hadamard_product(&self, rhs)
hadamard_product(self, rhs) ==
    IF self.rows # rhs.rows
    THEN Err(DimensionMismatch(format_shape(self.rows, self.N),
                               format_shape(rhs.rows, self.N),
                               "Hadamard product"))
    ELSE Ok([data |-> [i \in 1..self.rows |->
                          Vector_mul(self.data[i], rhs.data[i])],
             rows |-> self.rows, N |-> self.N])

\* r.and_then(|m| m + rhs): the sum of an earlier result and rhs.
add_to_result(r, rhs) == IF r.tag = "Err" THEN r ELSE Matrix_add(r.value, rhs)

\* r.and_then(|m| self + m): the sum of self and an earlier result.
add_result_to(self, r) == IF r.tag = "Err" THEN r ELSE Matrix_add(self, r.value)

AddM1 == Lit(<<<<1, 2, 3>>, <<4, 5, 6>>>>)

AddM2 == Lit(<<<<7, 8, 9>>, <<10, 11, 12>>>>)

AddM3 == Lit(<<<<0, 0, 0>>>>)

\* The matrices that take part in the sums.
AddOperands ==
    MatricesUpTo(AddRows, AddCols, AddElems) \cup {AddM1, AddM2, AddM3}

AddInit ==
    /\ recv \in AddOperands
    /\ other \in {m \in AddOperands : m.N = recv.N}
    /\ op = Call("init", <<>>)
    /\ ret = None
    /\ old = None
    /\ back = None
    /\ DetIdle

\* recv + other
MatAdd ==
    /\ op.name = "init"
    /\ op' = Call("add", <<>>)
    /\ ret' = Matrix_add(recv, other)
    /\ UNCHANGED <<recv, other, old, back, det_vars>>

\* recv.hadamard_product(&other)
Hadamard ==
    /\ op.name = "init"
    /\ op' = Call("hadamard_product", <<>>)
    /\ ret' = hadamard_product(recv, other)
    /\ UNCHANGED <<recv, other, old, back, det_vars>>

\* recv + other, and other + recv
AddCommuted ==
    /\ op.name = "init"
    /\ op' = Call("add_commuted", <<>>)
    /\ ret' = Matrix_add(recv, other)
    /\ back' = Matrix_add(other, recv)
    /\ UNCHANGED <<recv, other, old, det_vars>>

\* (recv + other) + third, and recv + (other + third)
AddGrouped(third) ==
    /\ op.name = "init"
    /\ third.N = recv.N
    /\ op' = Call("add_grouped", <<third>>)
    /\ ret' = add_to_result(Matrix_add(recv, other), third)
    /\ back' = add_result_to(recv, Matrix_add(other, third))
    /\ UNCHANGED <<recv, other, old, det_vars>>

AddNext ==
    \/ MatAdd
    \/ Hadamard
    \/ AddCommuted
    \/ \E third \in AddOperands : AddGrouped(third)

SpecAdd == AddInit /\ [][AddNext]_vars

(* ------------------- checked accessors and the Tensor ------------------ *)
(* A Tensor<T, N> is [data, depths, rows, N]: `data` the sequence of depth *)
(* slices, each a Matrix<T, N>.                                            *)

\* Largest depth count and row count of the tensors enumerated.
TenDepths == 2

TenRows == 1

\* Column counts N of the tensors enumerated.
TenCols == {1}

\* Elements written into a tensor, and the scalars.
TenElems == {0, 1}

\* Matrix::get(&self, row)
Matrix_get(self, row) ==
    IF row >= self.rows
    THEN Err(OutOfBounds(to_string(row), to_string(self.rows)))
    ELSE Ok(self.data[row + 1])

\* Matrix::get_mut(&mut self, row): the row the returned reference points to.
Matrix_get_mut(self, row) ==
    IF row >= self.rows
    THEN Err(OutOfBounds(to_string(row), to_string(self.rows)))
    ELSE Ok(self.data[row + 1])

\* Vector::scalar_mul(&self, scalar)
Vector_scalar_mul(self, scalar) == [i \in 1..Len(self) |-> self[i] * scalar]

\* Matrix::scalar_mul(&self, scalar)
Matrix_scalar_mul(self, scalar) ==
    [data |-> [i \in 1..self.rows |-> Vector_scalar_mul(self.data[i], scalar)],
     rows |-> self.rows, N |-> self.N]

\* Tensor::new(depths, rows)
Tensor_new(depths, rows, N) ==
    [data |-> [d \in 1..depths |-> Matrix_new(rows, N)],
     depths |-> depths, rows |-> rows, N |-> N]

\* Tensor::shape(&self)
Tensor_shape(self) == <<self.depths, self.rows, self.N>>

\* Tensor::get that reports the row count as the size.
Tensor_get_size_rows(self, depth) ==
    IF depth >= self.depths
    THEN Err(OutOfBounds(to_string(depth), to_string(self.rows)))
    ELSE Ok(self.data[depth + 1])

\* Tensor::get(&self, depth)
Tensor_get(self, depth) ==
    IF depth >= self.depths
    THEN Err(OutOfBounds(to_string(depth), to_string(self.depths)))
    ELSE Ok(self.data[depth + 1])

\* Tensor::get_mut(&mut self, depth): the slice the returned reference
\* points to.
Tensor_get_mut(self, depth) ==
    IF depth >= self.depths
    THEN Err(OutOfBounds(to_string(depth), to_string(self.depths)))
    ELSE Ok(self.data[depth + 1])

\* scalar_mul that scales the first depth slice only.
Tensor_scalar_mul_first_slice(self, scalar) ==
    [data |-> [i \in 1..self.depths |->
                 IF i = 1 THEN Matrix_scalar_mul(self.data[i], scalar)
                 ELSE self.data[i]],
     depths |-> self.depths, rows |-> self.rows, N |-> self.N]

\* Tensor::scalar_mul(&self, scalar)
Tensor_scalar_mul(self, scalar) ==
    [data |-> [i \in 1..self.depths |-> Matrix_scalar_mul(self.data[i], scalar)],
     depths |-> self.depths, rows |-> self.rows, N |-> self.N]

\* A store through the reference to slice `depth`: *slot = m.
store_slice(self, depth, m) == [self EXCEPT !.data[depth + 1] = m]

\* A store through IndexMut down to one element: self[depth][row][col] = x.
store_element(self, depth, row, col, x) ==
    [self EXCEPT !.data[depth + 1].data[row + 1][col + 1] = x]

\* The matrices a caller can hold and store into a slice.
TenSlices == UNION {MatricesUpTo(TenRows, n, TenElems) : n \in TenCols}

TensorInit ==
    /\ \E depths \in 0..TenDepths, rows \in 0..TenRows, N \in TenCols :
          recv = Tensor_new(depths, rows, N)
    /\ other = None
    /\ op = Call("init", <<>>)
    /\ ret = None
    /\ old = recv
    /\ back = None
    /\ DetIdle

\* recv.shape()
TensorShape ==
    /\ op' = Call("tensor_shape", <<>>)
    /\ ret' = Tensor_shape(recv)
    /\ old' = recv
    /\ UNCHANGED <<recv, other, back, det_vars>>

\* recv.get(depth)
TensorGet(depth) ==
    /\ op' = Call("tensor_get", <<depth>>)
    /\ ret' = Tensor_get(recv, depth)
    /\ old' = recv
    /\ UNCHANGED <<recv, other, back, det_vars>>

\* recv.get_mut(depth)
TensorGetMut(depth) ==
    /\ op' = Call("tensor_get_mut", <<depth>>)
    /\ ret' = Tensor_get_mut(recv, depth)
    /\ old' = recv
    /\ UNCHANGED <<recv, other, back, det_vars>>

\* if let Ok(slot) = recv.get_mut(depth) { *slot = m }
TensorGetMutStore(depth, m) ==
    /\ m.N = recv.N
    /\ op' = Call("tensor_get_mut_store", <<depth, m>>)
    /\ ret' = Tensor_get_mut(recv, depth)
    /\ recv' = IF Tensor_get_mut(recv, depth).tag = "Ok"
               THEN store_slice(recv, depth, m)
               ELSE recv
    /\ old' = recv
    /\ UNCHANGED <<other, back, det_vars>>

\* recv[depth] = m, the index in range
TensorIndexMutStore(depth, m) ==
    /\ depth < recv.depths
    /\ m.N = recv.N
    /\ op' = Call("tensor_index_mut_store", <<depth, m>>)
    /\ ret' = None
    /\ recv' = store_slice(recv, depth, m)
    /\ old' = recv
    /\ UNCHANGED <<other, back, det_vars>>

\* recv[depth][row][col] = x, the indices in range
TensorElementStore(depth, row, col, x) ==
    /\ depth < recv.depths
    /\ row < recv.data[depth + 1].rows
    /\ col < recv.N
    /\ op' = Call("tensor_element_store", <<depth, row, col, x>>)
    /\ ret' = None
    /\ recv' = store_element(recv, depth, row, col, x)
    /\ old' = recv
    /\ UNCHANGED <<other, back, det_vars>>

\* recv.scalar_mul(scalar)
TensorScalarMul(scalar) ==
    /\ op' = Call("tensor_scalar_mul", <<scalar>>)
    /\ ret' = Tensor_scalar_mul(recv, scalar)
    /\ old' = recv
    /\ UNCHANGED <<recv, other, back, det_vars>>

\* recv[depth].get(row), the depth in range
MatrixGet(depth, row) ==
    /\ depth < recv.depths
    /\ op' = Call("matrix_get", <<depth, row>>)
    /\ ret' = Matrix_get(recv.data[depth + 1], row)
    /\ old' = recv
    /\ UNCHANGED <<recv, other, back, det_vars>>

\* recv[depth].get_mut(row), the depth in range
MatrixGetMut(depth, row) ==
    /\ depth < recv.depths
    /\ op' = Call("matrix_get_mut", <<depth, row>>)
    /\ ret' = Matrix_get_mut(recv.data[depth + 1], row)
    /\ old' = recv
    /\ UNCHANGED <<recv, other, back, det_vars>>

TensorNext ==
    \/ TensorShape
    \/ \E depth \in 0..(TenDepths + 1) : TensorGet(depth)
    \/ \E depth \in 0..(TenDepths + 1) : TensorGetMut(depth)
    \/ \E depth \in 0..(TenDepths + 1), m \in TenSlices :
          TensorGetMutStore(depth, m)
    \/ \E depth \in 0..TenDepths, m \in TenSlices : TensorIndexMutStore(depth, m)
    \/ \E depth \in 0..TenDepths, row \in 0..TenRows,
          col \in UNION {0..(n - 1) : n \in TenCols},
          x \in TenElems : TensorElementStore(depth, row, col, x)
    \/ \E scalar \in TenElems : TensorScalarMul(scalar)
    \/ \E depth \in 0..TenDepths, row \in 0..(TenRows + 1) : MatrixGet(depth, row)
    \/ \E depth \in 0..TenDepths, row \in 0..(TenRows + 1) : MatrixGetMut(depth, row)

SpecTensor == TensorInit /\ [][TensorNext]_vars

(* ----------------------------- reductions ----------------------------- *)
(* A call either returns a value or panics (unwinds).                      *)

Returned(v) == [tag |-> "Returned", value |-> v]

Panic == [tag |-> "Panic"]

\* The largest i32.
I32_MAX == 2147483647

\* <i32 as AllowedNumericTypes>::from_f64(n as f64).unwrap() for a count
\* n: the cast `as i32` saturates.
from_f64(n) == IF n > I32_MAX THEN I32_MAX ELSE n

\* iter.fold(T::zero(), |acc, x| acc + x) over the first n values.
RECURSIVE fold_sum(_, _)
fold_sum(values, n) ==
    IF n = 0 THEN zero ELSE fold_sum(values, n - 1) + values[n]

\* Iterator::max_by over the first n >= 1 entries, compared by `val`: the
\* later entry replaces the kept one unless the kept one is Greater.
RECURSIVE max_by(_, _)
max_by(entries, n) ==
    IF n = 1 THEN entries[1]
    ELSE LET x == max_by(entries, n - 1)
             y == entries[n]
         IN  IF x.val > y.val THEN x ELSE y

\* Iterator::min_by over the first n >= 1 entries, compared by `val`: the
\* later entry replaces the kept one only if the kept one is Greater.
RECURSIVE min_by(_, _)
min_by(entries, n) ==
    IF n = 1 THEN entries[1]
    ELSE LET x == min_by(entries, n - 1)
             y == entries[n]
         IN  IF x.val > y.val THEN y ELSE x

\* self.iter().copied(): the values as entries.
copied(self) == [i \in 1..Len(self) |-> [val |-> self[i]]]

\* self.iter().enumerate(): the values with their 0-based positions.
enumerate(self) == [i \in 1..Len(self) |-> [pos |-> i - 1, val |-> self[i]]]

\* Vector::sum(&self)
Vector_sum(self) == fold_sum(self, Len(self))

\* mean() with a quotient rounded down instead of toward zero.
Vector_mean_floor(self) ==
    IF from_f64(Len(self)) = 0
    THEN Panic
    ELSE Returned(Vector_sum(self) \div from_f64(Len(self)))

\* Vector::mean(&self): the integer division panics on a zero divisor.
Vector_mean(self) ==
    IF from_f64(Len(self)) = 0
    THEN Panic
    ELSE Returned(int_div(Vector_sum(self), from_f64(Len(self))))

\* Vector::max(&self)
Vector_max(self) ==
    IF Len(self) = 0 THEN zero ELSE max_by(copied(self), Len(self)).val

\* Vector::min(&self)
Vector_min(self) ==
    IF Len(self) = 0 THEN zero ELSE min_by(copied(self), Len(self)).val

\* Vector::argmax(&self)
Vector_argmax(self) ==
    IF Len(self) = 0 THEN 0 ELSE max_by(enumerate(self), Len(self)).pos

\* vector![1, -2, 3, 4, 5]
RedVector == <<1, -2, 3, 4, 5>>

VecRedInit ==
    /\ recv \in Slices \cup {RedVector}
    /\ other = None
    /\ op = Call("init", <<>>)
    /\ ret = None
    /\ old = recv
    /\ back = None
    /\ DetIdle

\* recv.sum()
VecSum ==
    /\ op.name = "init"
    /\ op' = Call("vec_sum", <<>>)
    /\ ret' = Returned(Vector_sum(recv))
    /\ UNCHANGED <<recv, other, old, back, det_vars>>

\* recv.mean()
VecMean ==
    /\ op.name = "init"
    /\ op' = Call("vec_mean", <<>>)
    /\ ret' = Vector_mean(recv)
    /\ UNCHANGED <<recv, other, old, back, det_vars>>

\* recv.max()
VecMax ==
    /\ op.name = "init"
    /\ op' = Call("vec_max", <<>>)
    /\ ret' = Returned(Vector_max(recv))
    /\ UNCHANGED <<recv, other, old, back, det_vars>>

\* recv.min()
VecMin ==
    /\ op.name = "init"
    /\ op' = Call("vec_min", <<>>)
    /\ ret' = Returned(Vector_min(recv))
    /\ UNCHANGED <<recv, other, old, back, det_vars>>

\* recv.argmax()
VecArgmax ==
    /\ op.name = "init"
    /\ op' = Call("vec_argmax", <<>>)
    /\ ret' = Returned(Vector_argmax(recv))
    /\ UNCHANGED <<recv, other, old, back, det_vars>>

VecRedNext ==
    \/ VecSum
    \/ VecMean
    \/ VecMax
    \/ VecMin
    \/ VecArgmax

SpecVecRed == VecRedInit /\ [][VecRedNext]_vars

(* -------------------------- Matrix reductions ------------------------- *)

\* Largest row count and column count of the matrices enumerated for the
\* reductions.
RedRows == 2

RedCols == 2

\* Elements of the matrices enumerated for the reductions.
RedElems == {-1, 0, 2}

\* self.data.iter().map(|row| row.sum())
row_sums(self) == [i \in 1..self.rows |-> Vector_sum(self.data[i])]

\* Matrix::sum(&self)
Matrix_sum(self) == fold_sum(row_sums(self), self.rows)

\* mean() that divides by the row count.
Matrix_mean_by_rows(self) ==
    IF from_f64(self.rows) = 0
    THEN Panic
    ELSE Returned(int_div(Matrix_sum(self), from_f64(self.rows)))

\* Matrix::mean(&self): the integer division panics on a zero divisor.
Matrix_mean(self) ==
    LET total_elements == self.rows * self.N
    IN  IF from_f64(total_elements) = 0
        THEN Panic
        ELSE Returned(int_div(Matrix_sum(self), from_f64(total_elements)))

\* self.data.iter().map(|row| row.max())
row_maxes(self) == [i \in 1..self.rows |-> [val |-> Vector_max(self.data[i])]]

\* self.data.iter().map(|row| row.min())
row_mins(self) == [i \in 1..self.rows |-> [val |-> Vector_min(self.data[i])]]

\* Matrix::max(&self)
Matrix_max(self) ==
    IF self.rows = 0 THEN zero ELSE max_by(row_maxes(self), self.rows).val

\* Matrix::min(&self)
Matrix_min(self) ==
    IF self.rows = 0 THEN zero ELSE min_by(row_mins(self), self.rows).val

\* Matrix::argmax: the (i, j, val) of row i, j the position max_by keeps
\* in that row, (0, T::default()) for a row without elements.
row_argmax(self, i) ==
    LET best == IF self.N = 0
                THEN [pos |-> 0, val |-> zero]
                ELSE max_by(enumerate(self.data[i + 1]), self.N)
    IN  [row |-> i, col |-> best.pos, val |-> best.val]

\* argmax() whose value for no rows is the shape instead of (0, 0).
Matrix_argmax_default_shape(self) ==
    IF self.rows = 0
    THEN <<self.rows, self.N>>
    ELSE LET best == max_by([i \in 1..self.rows |-> row_argmax(self, i - 1)],
                            self.rows)
         IN  <<best.row, best.col>>

\* Matrix::argmax(&self)
Matrix_argmax(self) ==
    IF self.rows = 0
    THEN <<0, 0>>
    ELSE LET best == max_by([i \in 1..self.rows |-> row_argmax(self, i - 1)],
                            self.rows)
         IN  <<best.row, best.col>>

\* Matrix::col(&self, j): the assertion j < N panics when it fails.
Matrix_col(self, j) ==
    IF ~(j < self.N)
    THEN Panic
    ELSE Returned([i \in 1..self.rows |-> self.data[i][j + 1]])

\* matrix![1, -2, 3; 4, 5, -6]
RedMatrix == Lit(<<<<1, -2, 3>>, <<4, 5, -6>>>>)

MatRedInit ==
    /\ recv \in MatricesUpTo(RedRows, RedCols, RedElems) \cup {RedMatrix}
    /\ other = None
    /\ op = Call("init", <<>>)
    /\ ret = None
    /\ old = recv
    /\ back = None
    /\ DetIdle

\* recv.sum()
MatSum ==
    /\ op.name = "init"
    /\ op' = Call("mat_sum", <<>>)
    /\ ret' = Returned(Matrix_sum(recv))
    /\ UNCHANGED <<recv, other, old, back, det_vars>>

\* recv.mean()
MatMean ==
    /\ op.name = "init"
    /\ op' = Call("mat_mean", <<>>)
    /\ ret' = Matrix_mean(recv)
    /\ UNCHANGED <<recv, other, old, back, det_vars>>

\* recv.max()
MatMax ==
    /\ op.name = "init"
    /\ op' = Call("mat_max", <<>>)
    /\ ret' = Returned(Matrix_max(recv))
    /\ UNCHANGED <<recv, other, old, back, det_vars>>

\* recv.min()
MatMin ==
    /\ op.name = "init"
    /\ op' = Call("mat_min", <<>>)
    /\ ret' = Returned(Matrix_min(recv))
    /\ UNCHANGED <<recv, other, old, back, det_vars>>

\* recv.argmax()
MatArgmax ==
    /\ op.name = "init"
    /\ op' = Call("mat_argmax", <<>>)
    /\ ret' = Returned(Matrix_argmax(recv))
    /\ UNCHANGED <<recv, other, old, back, det_vars>>

\* recv.col(j)
MatCol(j) ==
    /\ op.name = "init"
    /\ op' = Call("col", <<j>>)
    /\ ret' = Matrix_col(recv, j)
    /\ UNCHANGED <<recv, other, old, back, det_vars>>

MatRedNext ==
    \/ MatSum
    \/ MatMean
    \/ MatMax
    \/ MatMin
    \/ MatArgmax
    \/ \E j \in 0..(RedCols + 1) : MatCol(j)

SpecMatRed == MatRedInit /\ [][MatRedNext]_vars

(* ---------------------- AllowedNumericTypes::from_f64 ------------------ *)
(* An f64 argument is an exact value <<num, den>>.                         *)

\* Largest numerator magnitude and denominator of the f64 arguments
\* enumerated.
F64Num == 8

F64Den == 3

Some(v) == [tag |-> "Some", value |-> v]

\* The integer part of x: the cast drops the fraction, toward zero.
f64_trunc(x) == int_div(x[1], x[2])

\* The smallest i32.
I32_MIN == -I32_MAX - 1

\* x as i32: the integer part, saturated at the ends of the i32 range.
f64_as_i32(x) ==
    IF f64_trunc(x) > I32_MAX THEN I32_MAX
    ELSE IF f64_trunc(x) < I32_MIN THEN I32_MIN
    ELSE f64_trunc(x)

\* x as u32: the integer part, saturated at zero (the enumerated arguments
\* stay far below u32::MAX, the upper end).
f64_as_u32(x) == IF f64_trunc(x) < 0 THEN 0 ELSE f64_trunc(x)

\* <i32 as AllowedNumericTypes>::from_f64(n)
i32_from_f64(n) == Some(f64_as_i32(n))

\* <u32 as AllowedNumericTypes>::from_f64(n)
u32_from_f64(n) == Some(f64_as_u32(n))

\* <f64 as AllowedNumericTypes>::from_f64(n)
f64_from_f64(n) == Some(n)

F64Inputs == {Norm(n, d) : n \in (-F64Num)..F64Num, d \in 1..F64Den}

FromF64Init ==
    /\ recv = None
    /\ other \in F64Inputs
    /\ op = Call("init", <<>>)
    /\ ret = None
    /\ old = None
    /\ back = None
    /\ DetIdle

\* i32::from_f64(other)
I32FromF64 ==
    /\ op.name = "init"
    /\ op' = Call("i32_from_f64", <<>>)
    /\ ret' = i32_from_f64(other)
    /\ UNCHANGED <<recv, other, old, back, det_vars>>

\* u32::from_f64(other)
U32FromF64 ==
    /\ op.name = "init"
    /\ op' = Call("u32_from_f64", <<>>)
    /\ ret' = u32_from_f64(other)
    /\ UNCHANGED <<recv, other, old, back, det_vars>>

\* f64::from_f64(other)
F64FromF64 ==
    /\ op.name = "init"
    /\ op' = Call("f64_from_f64", <<>>)
    /\ ret' = f64_from_f64(other)
    /\ UNCHANGED <<recv, other, old, back, det_vars>>

FromF64Next ==
    \/ I32FromF64
    \/ U32FromF64
    \/ F64FromF64

SpecFromF64 == FromF64Init /\ [][FromF64Next]_vars

(* ------------------------- a * b over f64 ----------------------------- *)
(* An f64 element is [big, small], the value big * 10^16 + small, with    *)
(* small a whole number far below 10^8 in magnitude and |big| <= 7.       *)
(* Every result is rounded to the nearest f64, ties to the even mantissa. *)

\* Inner dimension of the f64 products enumerated.
KahanLen == 4

F64(big, small) == [big |-> big, small |-> small]

f64_zero == F64(0, 0)

\* Distance between neighbouring f64 values at magnitude mb * 10^16:
\* 2 in [2^53, 2^54), 4 in [2^54, 2^55), 8 in [2^55, 2^56).
f64_ulp(mb) == IF mb = 1 THEN 2 ELSE IF mb <= 3 THEN 4 ELSE 8

\* The nearest multiple of u to ms; a tie goes to the multiple of 2 * u
\* (10^16 = 2^16 * 5^16, so mb * 10^16 / u is even).
f64_nearest(ms, u) ==
    LET r  == ms % u
        lo == ms - r
    IN  IF 2 * r < u THEN lo
        ELSE IF 2 * r > u THEN lo + u
        ELSE IF lo % (2 * u) = 0 THEN lo ELSE lo + u

\* The f64 nearest to the real number big * 10^16 + small: whole numbers
\* below 2^53 are exact, larger magnitudes are rounded on their grid.
f64_round(big, small) ==
    IF big = 0 THEN F64(0, small)
    ELSE LET sign == IF big < 0 THEN -1 ELSE 1
         IN  F64(big, sign * f64_nearest(sign * small, f64_ulp(sign * big)))

f64_add(x, y) == f64_round(x.big + y.big, x.small + y.small)

f64_sub(x, y) == f64_round(x.big - y.big, x.small - y.small)

\* x * y where at least one factor is a small whole number.
f64_mul(x, y) ==
    IF y.big = 0 THEN f64_round(x.big * y.small, x.small * y.small)
    ELSE f64_round(y.big * x.small, y.small * x.small)

\* f64_kahan_step with the sign of c wrong in y.
f64_kahan_step_adds_c(acc, product) ==
    LET y == f64_add(product, acc.c)
        t == f64_add(acc.sum, y)
    IN  [sum |-> t, c |-> f64_sub(f64_sub(t, acc.sum), y)]

\* One pass of the accumulation loop body over f64.
f64_kahan_step(acc, product) ==
    LET y == f64_sub(product, acc.c)
        t == f64_add(acc.sum, y)
    IN  [sum |-> t, c |-> f64_sub(f64_sub(t, acc.sum), y)]

\* [sum, c] after the passes k = 0 .. n - 1 of the loop for cell (i, j).
RECURSIVE f64_kahan_after(_, _, _, _, _)
f64_kahan_after(lhs, rhs, i, j, n) ==
    IF n = 0 THEN [sum |-> f64_zero, c |-> f64_zero]
    ELSE f64_kahan_step(f64_kahan_after(lhs, rhs, i, j, n - 1),
                        f64_mul(lhs.data[i + 1][n], rhs.data[n][j + 1]))

\* mat_mul_impl(lhs: &Matrix<f64, N>, rhs: &Matrix<f64, M>)
f64_mat_mul_impl(lhs, rhs) ==
    IF shape(rhs)[1] # lhs.N
    THEN Err(mul_mismatch(lhs, rhs))
    ELSE LET lhs_rows == shape(lhs)[1]
         IN  Ok([data |-> [i \in 1..lhs_rows |->
                              [j \in 1..rhs.N |->
                                  f64_kahan_after(lhs, rhs, i - 1, j - 1,
                                                  lhs.N).sum]],
                 rows |-> lhs_rows, N |-> rhs.N])

\* The operands of f64_kahan_stability_sanity.
KahanA == Lit(<<<<F64(1, 0), F64(0, 1), F64(0, 1), F64(-1, 0)>>>>)

KahanB == Lit(<<<<F64(0, 1)>>, <<F64(0, 1)>>, <<F64(0, -1)>>, <<F64(0, 1)>>>>)

\* 1 x n rows over {1e16, 1, -1e16} and n x 1 columns over {1, -1},
\* n up to KahanLen.
KahanRows ==
    UNION {{Lit(<<r>>) : r \in [1..n -> {F64(1, 0), F64(0, 1), F64(-1, 0)}]}
           : n \in 1..KahanLen}

KahanColumns ==
    UNION {{Lit([q \in 1..n |-> <<col[q]>>]) :
                col \in [1..n -> {F64(0, 1), F64(0, -1)}]}
           : n \in 1..KahanLen}

KahanInputs ==
    {pair \in KahanRows \X KahanColumns : pair[1].N >= pair[2].rows}
        \cup {<<KahanA, KahanB>>}

KahanInit ==
    /\ \E pair \in KahanInputs : recv = pair[1] /\ other = pair[2]
    /\ op = Call("init", <<>>)
    /\ ret = None
    /\ old = recv
    /\ back = None
    /\ DetIdle

\* &recv * &other over f64
MulF64 ==
    /\ op.name = "init"
    /\ op' = Call("mul_f64", <<>>)
    /\ ret' = f64_mat_mul_impl(recv, other)
    /\ UNCHANGED <<recv, other, old, back, det_vars>>

KahanNext == MulF64

SpecKahan == KahanInit /\ [][KahanNext]_vars

(* --------------------- a Matrix<i32, N> in use ------------------------ *)
(* One matrix `recv` over its life: calls on it, stores into it, and the  *)
(* caller taking a returned matrix as the new `recv`.  The elements are   *)
(* integers, so determinant() divides with truncation.                    *)

\* Largest row count and column count of the matrices enumerated.
MatDim == 2

MatElems == {0, 1}

MatScalars == {0, 1, 2}

\* Vector::dot(&self, other)
Vector_dot(self, rhs) == fold_sum(Vector_mul(self, rhs), Len(self))

\* Matrix::mat_vec_mul(&self, vec)
mat_vec_mul(self, vec) ==
    Ok([i \in 1..self.rows |-> Vector_dot(self.data[i], vec)])

\* get_at testing the column index before the row index.
get_at_col_first(self, row, col) ==
    IF col >= self.N
    THEN Err(OutOfBounds(to_string(col), to_string(self.N)))
    ELSE IF row >= self.rows
    THEN Err(OutOfBounds(to_string(row), to_string(self.rows)))
    ELSE Ok(self.data[row + 1][col + 1])

\* Matrix::get_at(&self, row, col)
get_at(self, row, col) ==
    IF row >= self.rows
    THEN Err(OutOfBounds(to_string(row), to_string(self.rows)))
    ELSE IF col >= self.N
    THEN Err(OutOfBounds(to_string(col), to_string(self.N)))
    ELSE Ok(self.data[row + 1][col + 1])

\* Matrix::get_at_mut(&mut self, row, col): the element the returned
\* reference points to.
get_at_mut(self, row, col) ==
    IF row >= self.rows
    THEN Err(OutOfBounds(to_string(row), to_string(self.rows)))
    ELSE IF col >= self.N
    THEN Err(OutOfBounds(to_string(col), to_string(self.N)))
    ELSE Ok(self.data[row + 1][col + 1])

\* A store through a mutable reference to one element.
store_at(self, row, col, x) == [self EXCEPT !.data[row + 1][col + 1] = x]

\* A store through a mutable reference to one row.
store_row(self, row, v) == [self EXCEPT !.data[row + 1] = v]

\* The inner search loop of determinant() over integer elements.
RECURSIVE int_select_max_row(_, _, _, _)
int_select_max_row(w, col, i, best) ==
    IF i >= w.rows THEN best
    ELSE int_select_max_row(w, col, i + 1,
            IF IntAbs(w.data[i + 1][col + 1]) > IntAbs(w.data[best + 1][col + 1])
            THEN i ELSE best)

\* lu[(i, j)] = lu[(i, j)] - factor * lu[(k, j)] for j in k + 1 .. cols - 1
int_eliminate_row(row, pivot_row, col, factor) ==
    [j \in 1..Len(row) |->
        IF j - 1 >= col + 1 THEN row[j] - factor * pivot_row[j] ELSE row[j]]

\* The elimination loop of step col; factor = lu[(i, k)] / pivot is the
\* integer quotient.
int_eliminate(w, col, p) ==
    [w EXCEPT !.data =
        [i \in 1..w.rows |->
            IF i - 1 >= col + 1
            THEN int_eliminate_row(w.data[i], w.data[col + 1], col,
                                   int_div(w.data[i][col + 1], p))
            ELSE w.data[i]]]

\* matrix![[1, 2], [3, 4]]
IntTwoByTwo == Lit(<<<<1, 2>>, <<3, 4>>>>)

\* The right operands of add, hadamard_product and *: the matrices with
\* all elements equal.
MatOperands ==
    UNION {Matrices(r, n, {e}) : r \in 0..MatDim, n \in 0..MatDim, e \in MatElems}

MatVectors == UNION {[1..n -> MatElems] : n \in 0..MatDim}

\* Matrix::new(rows) and Matrix::from_vectors(vectors).
MatrixInit ==
    /\ \/ \E rows \in 0..MatDim, N \in 0..MatDim : recv = Matrix_new(rows, N)
       \/ \E N \in 0..MatDim, rows \in 0..MatDim :
             \E vectors \in [1..rows -> [1..N -> MatElems]] :
                recv = from_vectors(vectors, N)
       \/ recv = IntTwoByTwo
    /\ other = None
    /\ op = Call("init", <<>>)
    /\ ret = None
    /\ old = recv
    /\ back = None
    /\ DetIdle

\* No call is in progress and the last result has been consumed.
Ready == pc = "idle" /\ ret = None

\* recv.scalar_mul(scalar)
MScalarMul(scalar) ==
    /\ Ready
    /\ op' = Call("scalar_mul", <<scalar>>)
    /\ ret' = Returned(Matrix_scalar_mul(recv, scalar))
    /\ old' = recv
    /\ other' = None
    /\ UNCHANGED <<recv, back, det_vars>>

\* recv.hadamard_product(&rhs)
MHadamard(rhs) ==
    /\ Ready
    /\ rhs.N = recv.N
    /\ op' = Call("hadamard_product", <<>>)
    /\ ret' = hadamard_product(recv, rhs)
    /\ old' = recv
    /\ other' = rhs
    /\ UNCHANGED <<recv, back, det_vars>>

\* recv.clone() + rhs
MAdd(rhs) ==
    /\ Ready
    /\ rhs.N = recv.N
    /\ op' = Call("add", <<>>)
    /\ ret' = Matrix_add(recv, rhs)
    /\ old' = recv
    /\ other' = rhs
    /\ UNCHANGED <<recv, back, det_vars>>

\* &recv * &rhs
MMul(rhs) ==
    /\ Ready
    /\ op' = Call("mul", <<>>)
    /\ ret' = mul_ref_ref(recv, rhs)
    /\ old' = recv
    /\ other' = rhs
    /\ UNCHANGED <<recv, back, det_vars>>

\* recv.mat_vec_mul(&vec)
MMatVecMul(vec) ==
    /\ Ready
    /\ Len(vec) = recv.N
    /\ op' = Call("mat_vec_mul", <<vec>>)
    /\ ret' = mat_vec_mul(recv, vec)
    /\ old' = recv
    /\ other' = None
    /\ UNCHANGED <<recv, back, det_vars>>

\* recv.transpose::<M>()
MTranspose(M) ==
    /\ Ready
    /\ op' = Call("transpose", <<M>>)
    /\ ret' = transpose(recv, M)
    /\ old' = recv
    /\ other' = None
    /\ UNCHANGED <<recv, back, det_vars>>

\* recv.swap_rows(row1, row2)
MSwapRows(row1, row2) ==
    /\ Ready
    /\ op' = Call("swap_rows", <<row1, row2>>)
    /\ ret' = swap_rows(recv, row1, row2).ret
    /\ recv' = swap_rows(recv, row1, row2).self
    /\ old' = recv
    /\ other' = None
    /\ UNCHANGED <<back, det_vars>>

\* recv.get_at(row, col)
MGetAt(row, col) ==
    /\ Ready
    /\ op' = Call("get_at", <<row, col>>)
    /\ ret' = get_at(recv, row, col)
    /\ old' = recv
    /\ other' = None
    /\ UNCHANGED <<recv, back, det_vars>>

\* if let Ok(e) = recv.get_at_mut(row, col) { *e = x }
MGetAtMut(row, col, x) ==
    /\ Ready
    /\ op' = Call("get_at_mut", <<row, col, x>>)
    /\ ret' = get_at_mut(recv, row, col)
    /\ recv' = IF get_at_mut(recv, row, col).tag = "Ok"
               THEN store_at(recv, row, col, x) ELSE recv
    /\ old' = recv
    /\ other' = None
    /\ UNCHANGED <<back, det_vars>>

\* if let Ok(r) = recv.get_mut(row) { *r = v }
MGetMut(row, v) ==
    /\ Ready
    /\ Len(v) = recv.N
    /\ op' = Call("get_mut", <<row, v>>)
    /\ ret' = Matrix_get_mut(recv, row)
    /\ recv' = IF Matrix_get_mut(recv, row).tag = "Ok"
               THEN store_row(recv, row, v) ELSE recv
    /\ old' = recv
    /\ other' = None
    /\ UNCHANGED <<back, det_vars>>

\* recv[(row, col)] = x: the indexing panics outside the matrix.
MIndexMut(row, col, x) ==
    /\ Ready
    /\ op' = Call("index_mut", <<row, col, x>>)
    /\ IF row < Len(recv.data) /\ col < recv.N
       THEN /\ ret' = Returned(<<>>)
            /\ recv' = store_at(recv, row, col, x)
       ELSE /\ ret' = Panic
            /\ UNCHANGED recv
    /\ old' = recv
    /\ other' = None
    /\ UNCHANGED <<back, det_vars>>

\* recv.sum()
MSum ==
    /\ Ready
    /\ op' = Call("sum", <<>>)
    /\ ret' = Returned(Matrix_sum(recv))
    /\ old' = recv
    /\ other' = None
    /\ UNCHANGED <<recv, back, det_vars>>

\* recv.mean()
MMean ==
    /\ Ready
    /\ op' = Call("mean", <<>>)
    /\ ret' = Matrix_mean(recv)
    /\ old' = recv
    /\ other' = None
    /\ UNCHANGED <<recv, back, det_vars>>

\* recv.max()
MMax ==
    /\ Ready
    /\ op' = Call("max", <<>>)
    /\ ret' = Returned(Matrix_max(recv))
    /\ old' = recv
    /\ other' = None
    /\ UNCHANGED <<recv, back, det_vars>>

\* recv.min()
MMin ==
    /\ Ready
    /\ op' = Call("min", <<>>)
    /\ ret' = Returned(Matrix_min(recv))
    /\ old' = recv
    /\ other' = None
    /\ UNCHANGED <<recv, back, det_vars>>

\* recv.argmax()
MArgmax ==
    /\ Ready
    /\ op' = Call("argmax", <<>>)
    /\ ret' = Returned(Matrix_argmax(recv))
    /\ old' = recv
    /\ other' = None
    /\ UNCHANGED <<recv, back, det_vars>>

\* recv.determinant(): the shape check, then lu = self.clone(), det = one.
IntDetCall ==
    /\ Ready
    /\ op' = Call("determinant", <<>>)
    /\ old' = recv
    /\ other' = None
    /\ IF not_square(recv)
       THEN /\ ret' = Err(DimensionMismatch(
                          "Square Matrix",
                          format_shape(shape(recv)[1], shape(recv)[2]) \o " matrix",
                          "Determinant"))
            /\ UNCHANGED det_vars
       ELSE /\ ret' = None
            /\ lu' = recv
            /\ det' = one
            /\ k' = 0
            /\ pc' = "loop"
            /\ UNCHANGED <<max_row, pivot>>
    /\ UNCHANGED <<recv, back>>

\* IntDetPivot swapping the rows of the receiver as well as of lu.
IntDetPivotInPlace ==
    /\ pc = "loop"
    /\ op.name = "determinant"
    /\ k < shape(lu)[1]
    /\ LET mr == int_select_max_row(lu, k, k + 1, k)
           swapped == IF mr # k THEN swap_rows(lu, k, mr).self ELSE lu
           signed == IF mr # k THEN det * (-one) ELSE det
           p == swapped.data[k + 1][k + 1]
       IN  /\ max_row' = mr
           /\ recv' = IF mr # k THEN swap_rows(recv, k, mr).self ELSE recv
           /\ IF is_zero(p)
              THEN /\ ret' = Ok(zero)
                   /\ pc' = "idle"
                   /\ lu' = None
                   /\ det' = exact_one
                   /\ pivot' = exact_zero
              ELSE /\ lu' = swapped
                   /\ pivot' = p
                   /\ det' = signed * p
                   /\ pc' = "elim"
                   /\ UNCHANGED ret
    /\ UNCHANGED <<other, op, old, back, k>>

\* Step k up to the pivot test: select max_row, swap the rows of lu, flip
\* the sign, read the pivot, return zero if it is zero (the locals are
\* dropped), else multiply it into det.
IntDetPivot ==
    /\ pc = "loop"
    /\ op.name = "determinant"
    /\ k < shape(lu)[1]
    /\ LET mr == int_select_max_row(lu, k, k + 1, k)
           swapped == IF mr # k THEN swap_rows(lu, k, mr).self ELSE lu
           signed == IF mr # k THEN det * (-one) ELSE det
           p == swapped.data[k + 1][k + 1]
       IN  /\ max_row' = mr
           /\ IF is_zero(p)
              THEN /\ ret' = Ok(zero)
                   /\ pc' = "idle"
                   /\ lu' = None
                   /\ det' = exact_one
                   /\ pivot' = exact_zero
              ELSE /\ lu' = swapped
                   /\ pivot' = p
                   /\ det' = signed * p
                   /\ pc' = "elim"
                   /\ UNCHANGED ret
    /\ UNCHANGED <<recv, other, op, old, back, k>>

\* The elimination loop of step k, then k + 1.
IntDetEliminate ==
    /\ pc = "elim"
    /\ op.name = "determinant"
    /\ lu' = int_eliminate(lu, k, pivot)
    /\ k' = k + 1
    /\ pc' = "loop"
    /\ UNCHANGED <<recv, other, op, ret, old, back, det, max_row, pivot>>

\* Ok(det) after the last step; the locals are dropped.
IntDetReturn ==
    /\ pc = "loop"
    /\ op.name = "determinant"
    /\ k >= shape(lu)[1]
    /\ ret' = Ok(det)
    /\ pc' = "idle"
    /\ lu' = None
    /\ det' = exact_one
    /\ pivot' = exact_zero
    /\ UNCHANGED <<recv, other, op, old, back, k, max_row>>

\* The caller takes the matrix a call returned as the receiver of the
\* calls that follow; matrices with elements outside MatElems are not
\* followed further.
Rebind ==
    /\ pc = "idle"
    /\ op.name \in {"scalar_mul", "hadamard_product", "add", "mul", "transpose"}
    /\ ret # None
    /\ ret.tag \in {"Ok", "Returned"}
    /\ \A i \in 1..Len(ret.value.data) : \A j \in 1..ret.value.N :
          ret.value.data[i][j] \in MatElems
    /\ recv' = ret.value
    /\ old' = ret.value
    /\ op' = Call("init", <<>>)
    /\ ret' = None
    /\ other' = None
    /\ k' = 0
    /\ max_row' = 0
    /\ UNCHANGED <<back, pc, lu, det, pivot>>

\* The caller drops what the last call returned.
Discard ==
    /\ pc = "idle"
    /\ ret # None
    /\ op' = Call("init", <<>>)
    /\ ret' = None
    /\ old' = recv
    /\ other' = None
    /\ k' = 0
    /\ max_row' = 0
    /\ UNCHANGED <<recv, back, pc, lu, det, pivot>>

MatrixNext ==
    \/ \E scalar \in MatScalars : MScalarMul(scalar)
    \/ \E rhs \in MatOperands : MHadamard(rhs)
    \/ \E rhs \in MatOperands : MAdd(rhs)
    \/ \E rhs \in MatOperands : MMul(rhs)
    \/ \E vec \in MatVectors : MMatVecMul(vec)
    \/ \E M \in 0..MatDim : MTranspose(M)
    \/ \E row1 \in 0..MatDim, row2 \in 0..MatDim : MSwapRows(row1, row2)
    \/ \E row \in 0..MatDim, col \in 0..MatDim : MGetAt(row, col)
    \/ \E row \in 0..MatDim, col \in 0..MatDim, x \in MatElems :
          MGetAtMut(row, col, x)
    \/ \E row \in 0..MatDim, v \in MatVectors : MGetMut(row, v)
    \/ \E row \in 0..MatDim, col \in 0..MatDim, x \in MatElems :
          MIndexMut(row, col, x)
    \/ MSum
    \/ MMean
    \/ MMax
    \/ MMin
    \/ MArgmax
    \/ IntDetCall
    \/ IntDetPivot
    \/ IntDetEliminate
    \/ IntDetReturn
    \/ Rebind
    \/ Discard

SpecMatrix == MatrixInit /\ [][MatrixNext]_vars

(* ------------------- reductions of a matrix and its rows -------------- *)

\* recv[i].sum(): indexing past the last row panics.
RowSum(i) ==
    /\ op.name = "init"
    /\ op' = Call("row_sum", <<i>>)
    /\ ret' = IF i < Len(recv.data)
              THEN Returned(Vector_sum(recv.data[i + 1])) ELSE Panic
    /\ UNCHANGED <<recv, other, old, back, det_vars>>

\* recv[i].max()
RowMax(i) ==
    /\ op.name = "init"
    /\ op' = Call("row_max", <<i>>)
    /\ ret' = IF i < Len(recv.data)
              THEN Returned(Vector_max(recv.data[i + 1])) ELSE Panic
    /\ UNCHANGED <<recv, other, old, back, det_vars>>

\* recv[i].min()
RowMin(i) ==
    /\ op.name = "init"
    /\ op' = Call("row_min", <<i>>)
    /\ ret' = IF i < Len(recv.data)
              THEN Returned(Vector_min(recv.data[i + 1])) ELSE Panic
    /\ UNCHANGED <<recv, other, old, back, det_vars>>

\* recv[i].argmax()
RowArgmax(i) ==
    /\ op.name = "init"
    /\ op' = Call("row_argmax", <<i>>)
    /\ ret' = IF i < Len(recv.data)
              THEN Returned(Vector_argmax(recv.data[i + 1])) ELSE Panic
    /\ UNCHANGED <<recv, other, old, back, det_vars>>

RowRedNext ==
    \/ MatSum
    \/ MatMean
    \/ MatMax
    \/ MatMin
    \/ MatArgmax
    \/ \E j \in 0..(RedCols + 1) : MatCol(j)
    \/ \E i \in 0..RedRows : RowSum(i)
    \/ \E i \in 0..RedRows : RowMax(i)
    \/ \E i \in 0..RedRows : RowMin(i)
    \/ \E i \in 0..RedRows : RowArgmax(i)

SpecRowRed == MatRedInit /\ [][RowRedNext]_vars

(* ------------------------------- claims ------------------------------- *)

\* Every row of matrix x has length n and x stores x.rows rows.
WellShaped(x, rows, n) ==
    /\ x.rows = rows
    /\ x.N = n
    /\ Len(x.data) = rows
    /\ \A i \in 1..rows : Len(x.data[i]) = n

\* C5: transpose::<M>() on an R x N matrix returns Err(DimensionMismatch)
\* for operation "Transpose" if and only if R # M; otherwise it returns
\* Ok(T) where T has shape (N, R) and T[i][j] = source[j][i].
C5_TransposeContract ==
    op.name = "transpose" =>
        LET M == op.args[1]
        IN  IF recv.rows # M
            THEN /\ ret.tag = "Err"
                 /\ ret.error.kind = "DimensionMismatch"
                 /\ ret.error.operation = "Transpose"
            ELSE /\ ret.tag = "Ok"
                 /\ shape(ret.value) = <<recv.N, recv.rows>>
                 /\ WellShaped(ret.value, recv.N, recv.rows)
                 /\ \A i \in 1..recv.N : \A j \in 1..recv.rows :
                        ret.value.data[i][j] = recv.data[j][i]

\* A 3 x 2 matrix with a 1 in one corner only has been transposed.
C5_Witness ==
    /\ op.name = "transpose"
    /\ ret.tag = "Ok"
    /\ recv.rows = 3 /\ recv.N = 2
    /\ recv.data[3][1] = 1 /\ recv.data[1][2] = 0
    /\ ret.value.data[1][3] = 1

\* C6: transposing an R x N matrix (R = 0 and N = 0 included) to N x R and
\* transposing the result back both succeed and give the matrix again.
C6_TransposeRoundTrip ==
    /\ (op.name = "transpose" /\ op.args[1] = recv.rows) => ret.tag = "Ok"
    /\ (op.name = "transpose_back" /\ op.args[2] = recv.N) => back = Ok(recv)

\* A 2 x 0 matrix went to 0 x 2 and back.
C6_Witness ==
    /\ op.name = "transpose_back"
    /\ recv.rows = 2 /\ recv.N = 0
    /\ ret.tag = "Ok" /\ ret.value.rows = 0
    /\ back = Ok(recv)

\* C7: swap_rows(i, j) with i < rows and j < rows returns Ok; afterwards
\* row i holds the former row j, row j the former row i, and every other
\* row and the row count are unchanged.
C7_SwapRowsExchanges ==
    (op.name = "swap_rows" /\ op.args[1] < old.rows /\ op.args[2] < old.rows) =>
        /\ ret = Ok(<<>>)
        /\ recv.rows = old.rows
        /\ recv.N = old.N
        /\ Len(recv.data) = Len(old.data)
        /\ recv.data[op.args[1] + 1] = old.data[op.args[2] + 1]
        /\ recv.data[op.args[2] + 1] = old.data[op.args[1] + 1]
        /\ \A r \in 0..(old.rows - 1) :
               (r # op.args[1] /\ r # op.args[2]) =>
                   recv.data[r + 1] = old.data[r + 1]

\* Rows 0 and 2 of a 3-row matrix with three different rows were swapped.
C7_Witness ==
    /\ op = Call("swap_rows", <<0, 2>>)
    /\ ret.tag = "Ok"
    /\ old.rows = 3
    /\ old.data[1] # old.data[3] /\ old.data[2] # old.data[1]
    /\ old.data[2] # old.data[3]
    /\ recv.data[1] = old.data[3] /\ recv.data[2] = old.data[2]

\* C8: swap_rows(i, j) with i >= rows or j >= rows returns Err(OutOfBounds)
\* carrying an out-of-range index and size = rows, and leaves the matrix
\* as it was.
C8_SwapRowsOutOfBounds ==
    (op.name = "swap_rows" /\ (op.args[1] >= old.rows \/ op.args[2] >= old.rows)) =>
        /\ ret.tag = "Err"
        /\ ret.error.kind = "OutOfBounds"
        /\ \E x \in {op.args[1], op.args[2]} :
               x >= old.rows /\ ret.error.index = to_string(x)
        /\ ret.error.size = to_string(old.rows)
        /\ recv = old

\* swap_rows(0, 2) failed on a 2-row matrix with two different rows.
C8_Witness ==
    /\ op = Call("swap_rows", <<0, 2>>)
    /\ ret = Err(OutOfBounds("2", "2"))
    /\ old.rows = 2
    /\ old.data[1] # old.data[2]
    /\ recv = old

(* The determinant by cofactor expansion along the first row, on integer   *)
(* entries.                                                                *)

Numerators(x) == [i \in 1..x.rows |-> [j \in 1..x.N |-> x.data[i][j][1]]]

Minor(A, c) ==
    [i \in 1..(Len(A) - 1) |->
        [j \in 1..(Len(A) - 1) |-> IF j < c THEN A[i + 1][j] ELSE A[i + 1][j + 1]]]

RECURSIVE MathDet(_)
RECURSIVE Cofactors(_, _)
Cofactors(A, c) ==
    IF c = 0 THEN 0
    ELSE Cofactors(A, c - 1)
            + (IF c % 2 = 1 THEN 1 ELSE -1) * A[1][c] * MathDet(Minor(A, c))

MathDet(A) == IF Len(A) = 0 THEN 1 ELSE Cofactors(A, Len(A))

\* C3: on a square matrix with exact element arithmetic determinant()
\* returns Ok(d), d the mathematical determinant; [[1,2],[3,4]] gives -2,
\* [[6,1,1],[4,-2,5],[2,8,7]] gives -306 and [[1,2],[2,4]] gives 0.
C3_DeterminantExact ==
    (op.name = "determinant" /\ pc = "done" /\ recv.rows = recv.N) =>
        /\ ret = Ok(Exact(MathDet(Numerators(recv))))
        /\ recv = TwoByTwo => ret = Ok(Exact(-2))
        /\ recv = ThreeByThree => ret = Ok(Exact(-306))
        /\ recv = Singular => ret = Ok(Exact(0))

\* determinant() of the 3 x 3 example has returned after all three steps.
C3_Witness ==
    /\ op.name = "determinant"
    /\ pc = "done"
    /\ recv = ThreeByThree
    /\ k = 3
    /\ ret = Ok(Exact(-306))

\* C4: determinant() on a matrix with rows # N returns
\* Err(DimensionMismatch) (a square matrix expected, the rows x N shape
\* found, operation "Determinant") without any elimination; on a matrix
\* with rows = N it never returns an error.
C4_DeterminantSquareOnly ==
    op.name = "determinant" =>
        IF recv.rows # recv.N
        THEN /\ pc = "done"
             /\ ret = Err(DimensionMismatch(
                          "Square Matrix",
                          to_string(recv.rows) \o "x" \o to_string(recv.N) \o " matrix",
                          "Determinant"))
             /\ lu = None /\ det = exact_one /\ k = 0
        ELSE /\ ret.tag # "Err"
             /\ pc = "done" => ret.tag = "Ok"

\* determinant() was called on a 1 x 2 matrix.
C4_Witness ==
    /\ op.name = "determinant"
    /\ recv = NotSquare
    /\ ret.tag = "Err"
    /\ ret.error.found = "1x2 matrix"

\* The plain running sum of the first n products of cell (i, j), 0-based.
RECURSIVE NaiveSum(_, _, _, _, _)
NaiveSum(a, b, i, j, n) ==
    IF n = 0 THEN 0
    ELSE NaiveSum(a, b, i, j, n - 1) + a.data[i + 1][n] * b.data[n][j + 1]

\* C1: for an R x N integer matrix A and an N x M integer matrix B, A * B
\* succeeds, has shape (R, M), each cell (i, j) is the naive sum over k of
\* A[i][k] * B[k][j], and the compensation term is zero after every
\* accumulation step; [[1,2,3],[4,5,6]] * [[7,8],[9,10],[11,12]] is
\* [[58,64],[139,154]].
C1_MatMulNaive ==
    (op.name = "mul" /\ other.rows = recv.N) =>
        /\ ret.tag = "Ok"
        /\ shape(ret.value) = <<recv.rows, other.N>>
        /\ WellShaped(ret.value, recv.rows, other.N)
        /\ \A i \in 0..(recv.rows - 1) : \A j \in 0..(other.N - 1) :
              /\ ret.value.data[i + 1][j + 1] = NaiveSum(recv, other, i, j, recv.N)
              /\ \A n \in 0..recv.N :
                    /\ kahan_after(recv, other, i, j, n).c = 0
                    /\ kahan_after(recv, other, i, j, n).sum
                          = NaiveSum(recv, other, i, j, n)
        /\ (recv = MulA /\ other = MulB) =>
              ret.value.data = <<<<58, 64>>, <<139, 154>>>>

\* The 2 x 3 by 3 x 2 example has been multiplied.
C1_Witness ==
    /\ op.name = "mul"
    /\ recv = MulA /\ other = MulB
    /\ ret = Ok(Lit(<<<<58, 64>>, <<139, 154>>>>))

\* C2: multiplying an R x N matrix by an S x M matrix returns
\* Err(DimensionMismatch) with expected "NxM", found "SxM" and operation
\* "Matrix multiplication" if and only if S # N, and Ok when S = N, for
\* every owned/borrowed operand combination.
C2_MatMulDimensionCheck ==
    op.name = "mul" =>
        /\ op.args[1] \in {"ref_ref", "ref_owned", "owned_ref", "owned_owned"}
        /\ IF other.rows # recv.N
           THEN ret = Err(DimensionMismatch(
                          to_string(recv.N) \o "x" \o to_string(other.N),
                          to_string(other.rows) \o "x" \o to_string(other.N),
                          "Matrix multiplication"))
           ELSE ret.tag = "Ok"

\* The 2 x 3 matrix was multiplied by a 2 x 2 matrix, both by value.
C2_Witness ==
    /\ op = Call("mul", <<"owned_owned">>)
    /\ recv = MulA /\ other = MulBad
    /\ ret.tag = "Err"
    /\ ret.error.expected = "3x2" /\ ret.error.found = "2x2"

\* q is a / b of the integer element types: a = q * b + r with the
\* remainder r smaller than b in magnitude and of the sign of a.
IsQuotient(a, b, q) ==
    \E r \in (1 - IntAbs(b))..(IntAbs(b) - 1) :
        /\ a = q * b + r
        /\ r > 0 => a > 0
        /\ r < 0 => a < 0

\* C9: for vectors a, b of the same length N, a + b, a - b and a * b return
\* the length-N vector of a[i] op b[i]; a / b returns Err(DivisionByZero),
\* and nothing else, if and only if some element of b is zero, and
\* otherwise the length-N vector of a[i] / b[i].
C9_VectorOperators ==
    LET N == Len(recv)
    IN  /\ op.name = "vec_add" =>
              Len(ret) = N /\ \A i \in 1..N : ret[i] = recv[i] + other[i]
        /\ op.name = "vec_sub" =>
              Len(ret) = N /\ \A i \in 1..N : ret[i] = recv[i] - other[i]
        /\ op.name = "vec_mul" =>
              Len(ret) = N /\ \A i \in 1..N : ret[i] = recv[i] * other[i]
        /\ op.name = "vec_div" =>
              IF \E i \in 1..N : other[i] = 0
              THEN ret = Err(DivisionByZero)
              ELSE /\ ret.tag = "Ok"
                   /\ Len(ret.value) = N
                   /\ \A i \in 1..N : IsQuotient(recv[i], other[i], ret.value[i])

\* [2, -3, 2] / [-1, 0, 2] failed at the zero in the middle.
C9_Witness ==
    /\ op.name = "vec_div"
    /\ recv = <<2, -3, 2>>
    /\ other = <<-1, 0, 2>>
    /\ ret = Err(DivisionByZero)

\* C10: scalar_div(s) returns Err(DivisionByZero) if and only if s is zero,
\* whatever the elements of the vector (none included); otherwise Ok of the
\* vector of self[i] / s; self is unchanged.
C10_ScalarDiv ==
    op.name = "scalar_div" =>
        LET s == op.args[1]
            N == Len(old)
        IN  /\ IF s = 0
               THEN ret = Err(DivisionByZero)
               ELSE /\ ret.tag = "Ok"
                    /\ Len(ret.value) = N
                    /\ \A i \in 1..N : IsQuotient(old[i], s, ret.value[i])
            /\ recv = old

\* [-3, 0, 2].scalar_div(2) returned [-1, 0, 1].
C10_Witness ==
    /\ op = Call("scalar_div", <<2>>)
    /\ recv = <<-3, 0, 2>>
    /\ ret = Ok(<<-1, 0, 1>>)

\* C11: Vector::<T, N>::from_slice(s) returns Err(DimensionMismatch) with
\* expected = N, found = len(s) and operation "Vector::from_slice" if and
\* only if len(s) # N; otherwise Ok of a vector of length N whose elements
\* equal s position by position.
C11_FromSlice ==
    op.name = "from_slice" =>
        LET N == op.args[1]
        IN  IF Len(other) # N
            THEN ret = Err(DimensionMismatch(to_string(N), to_string(Len(other)),
                                             "Vector::from_slice"))
            ELSE /\ ret.tag = "Ok"
                 /\ Len(ret.value) = N
                 /\ \A i \in 1..N : ret.value[i] = other[i]

\* A slice of two elements was refused for N = 3.
C11_Witness ==
    /\ op = Call("from_slice", <<3>>)
    /\ other = <<2, -3>>
    /\ ret.tag = "Err"
    /\ ret.error.expected = "3" /\ ret.error.found = "2"

\* C12: matrix addition and hadamard_product each return
\* Err(DimensionMismatch) naming both shapes ("r1xN", "r2xN") and the
\* operation ("Matrix addition" / "Hadamard product") if and only if the
\* two row counts differ; otherwise Ok of a matrix with the same row count
\* whose entry (i, j) is a[i][j] + b[i][j], respectively a[i][j] * b[i][j].
C12_AddHadamardContract ==
    op.name \in {"add", "hadamard_product"} =>
        LET name == IF op.name = "add" THEN "Matrix addition"
                    ELSE "Hadamard product"
        IN  IF recv.rows # other.rows
            THEN ret = Err(DimensionMismatch(
                           to_string(recv.rows) \o "x" \o to_string(recv.N),
                           to_string(other.rows) \o "x" \o to_string(recv.N),
                           name))
            ELSE /\ ret.tag = "Ok"
                 /\ WellShaped(ret.value, recv.rows, recv.N)
                 /\ \A i \in 1..recv.rows : \A j \in 1..recv.N :
                       ret.value.data[i][j] =
                          IF op.name = "add"
                          THEN recv.data[i][j] + other.data[i][j]
                          ELSE recv.data[i][j] * other.data[i][j]

\* The Hadamard product of a 2 x 3 and a 1 x 3 matrix was refused.
C12_Witness ==
    /\ op.name = "hadamard_product"
    /\ recv = AddM1 /\ other = AddM3
    /\ ret.tag = "Err"
    /\ ret.error.expected = "2x3" /\ ret.error.found = "1x3"

\* C13: for integer matrices A, B, C with equal row counts A + B = B + A
\* and (A + B) + C = A + (B + C), all sums succeeding; if two operands
\* have different row counts the sum fails with DimensionMismatch.
C13_AddCommutativeAssociative ==
    /\ op.name = "add_commuted" =>
          IF recv.rows = other.rows
          THEN ret.tag = "Ok" /\ back = ret
          ELSE /\ ret.tag = "Err" /\ ret.error.kind = "DimensionMismatch"
               /\ back.tag = "Err" /\ back.error.kind = "DimensionMismatch"
    /\ op.name = "add_grouped" =>
          LET third == op.args[1]
          IN  IF recv.rows = other.rows /\ other.rows = third.rows
              THEN ret.tag = "Ok" /\ back = ret
              ELSE /\ ret.tag = "Err" /\ ret.error.kind = "DimensionMismatch"
                   /\ back.tag = "Err" /\ back.error.kind = "DimensionMismatch"

\* Three 2 x 1 matrices, the first two different, were summed both ways.
C13_Witness ==
    /\ op.name = "add_grouped"
    /\ recv.rows = 2 /\ recv.N = 1
    /\ recv # other
    /\ op.args[1].data = <<<<2>>, <<-1>>>>
    /\ ret.tag = "Ok"
    /\ back = ret
    /\ ret.value.data[1][1] = recv.data[1][1] + other.data[1][1] + 2

\* C14: Matrix::get / get_mut(i) and Tensor::get / get_mut(d) return
\* Err(OutOfBounds) with index = the attempted index and size = the
\* current rows resp. depths if and only if the index is >= that size;
\* otherwise they return the row resp. depth slice stored at that index;
\* get never changes the container.
C14_CheckedAccessors ==
    /\ op.name \in {"tensor_get", "tensor_get_mut"} =>
          LET depth == op.args[1]
          IN  /\ IF depth >= old.depths
                 THEN ret = Err(OutOfBounds(to_string(depth),
                                            to_string(old.depths)))
                 ELSE ret = Ok(old.data[depth + 1])
              /\ recv = old
    /\ op.name \in {"matrix_get", "matrix_get_mut"} =>
          LET m == old.data[op.args[1] + 1]
              row == op.args[2]
          IN  /\ IF row >= m.rows
                 THEN ret = Err(OutOfBounds(to_string(row), to_string(m.rows)))
                 ELSE ret = Ok(m.data[row + 1])
              /\ recv = old

\* get(2) was refused by a tensor of two slices of one row each.
C14_Witness ==
    /\ op = Call("tensor_get", <<2>>)
    /\ old.depths = 2 /\ old.rows = 1
    /\ ret = Err(OutOfBounds("2", "2"))
    /\ recv = old

\* The tensor stores t.depths slices and every slice has t.rows rows.
Uniform(t) ==
    /\ Len(t.data) = t.depths
    /\ \A d \in 1..Len(t.data) :
          /\ t.data[d].rows = t.rows
          /\ Len(t.data[d].data) = t.rows

\* C20: in every state a Tensor reaches after new(depths, rows) and any
\* sequence of shape, get, get_mut, stores through the references that
\* get_mut and index_mut return, and scalar_mul, the tensor is uniform: it
\* stores `depths` slices and every slice has exactly `rows` rows; the
\* tensor scalar_mul returns is uniform too.
C20_TensorUniform ==
    /\ Uniform(recv)
    /\ op.name = "tensor_scalar_mul" => Uniform(ret)

\* The greatest and the least value of a non-empty sequence of integers.
Greatest(values) ==
    CHOOSE x \in {values[i] : i \in 1..Len(values)} :
        \A i \in 1..Len(values) : values[i] <= x

Least(values) ==
    CHOOSE x \in {values[i] : i \in 1..Len(values)} :
        \A i \in 1..Len(values) : values[i] >= x

\* The sum of the values from position i to the end.
RECURSIVE SumFrom(_, _)
SumFrom(values, i) ==
    IF i > Len(values) THEN 0 ELSE values[i] + SumFrom(values, i + 1)

\* C15: Vector::argmax returns an index i with v[i] equal to the maximum
\* element, and when the maximum occurs at several positions it returns
\* the first (lowest) such index.
C15_VectorArgmaxFirst ==
    (op.name = "vec_argmax" /\ Len(recv) >= 1) =>
        /\ ret.value \in 0..(Len(recv) - 1)
        /\ recv[ret.value + 1] = Greatest(recv)
        /\ \A i \in 0..(ret.value - 1) : recv[i + 1] # Greatest(recv)

\* C17: for a non-empty integer vector of length N, sum() is the sum of
\* the elements, mean() is sum() / N with truncating division, max() the
\* greatest and min() the least element; [1, -2, 3, 4, 5] gives 11, 2, 5
\* and -2.
C17_VectorReductions ==
    Len(recv) >= 1 =>
        /\ op.name = "vec_sum" =>
              /\ ret = Returned(SumFrom(recv, 1))
              /\ recv = RedVector => ret.value = 11
        /\ op.name = "vec_mean" =>
              /\ ret.tag = "Returned"
              /\ IsQuotient(SumFrom(recv, 1), Len(recv), ret.value)
              /\ recv = RedVector => ret.value = 2
        /\ op.name = "vec_max" =>
              /\ ret = Returned(Greatest(recv))
              /\ recv = RedVector => ret.value = 5
        /\ op.name = "vec_min" =>
              /\ ret = Returned(Least(recv))
              /\ recv = RedVector => ret.value = -2

\* mean() of [-3, -1, 0] returned -1: -4 / 3 truncated toward zero.
C17_Witness ==
    /\ op.name = "vec_mean"
    /\ recv = <<-3, -1, 0>>
    /\ ret = Returned(-1)

\* The elements of matrix x in row-major order.
RECURSIVE FlattenRows(_, _)
FlattenRows(x, n) ==
    IF n = 0 THEN <<>> ELSE FlattenRows(x, n - 1) \o x.data[n]

Flatten(x) == FlattenRows(x, x.rows)

\* C16: Matrix::argmax returns the (row, col) position of the maximum
\* element, and when the maximum occurs at several positions it returns
\* the first one in row-major order.
C16_MatrixArgmaxFirst ==
    (op.name = "mat_argmax" /\ recv.rows >= 1 /\ recv.N >= 1) =>
        LET r == ret.value[1]
            c == ret.value[2]
            greatest == Greatest(Flatten(recv))
        IN  /\ r \in 0..(recv.rows - 1) /\ c \in 0..(recv.N - 1)
            /\ recv.data[r + 1][c + 1] = greatest
            /\ \A i \in 0..(recv.rows - 1) : \A j \in 0..(recv.N - 1) :
                  (i < r \/ (i = r /\ j < c)) => recv.data[i + 1][j + 1] # greatest

\* C18: for an integer matrix with rows >= 1 and N >= 1, sum() is the sum
\* of all rows * N elements, max() / min() the greatest / least of all
\* elements, and mean() is sum() / (rows * N) with truncating division.
C18_MatrixReductions ==
    (recv.rows >= 1 /\ recv.N >= 1) =>
        /\ op.name = "mat_sum" => ret = Returned(SumFrom(Flatten(recv), 1))
        /\ op.name = "mat_mean" =>
              /\ ret.tag = "Returned"
              /\ IsQuotient(SumFrom(Flatten(recv), 1), recv.rows * recv.N,
                            ret.value)
        /\ op.name = "mat_max" => ret = Returned(Greatest(Flatten(recv)))
        /\ op.name = "mat_min" => ret = Returned(Least(Flatten(recv)))

\* mean() of [[1, -2, 3], [4, 5, -6]] returned 0: 5 / 6 truncated.
C18_Witness ==
    /\ op.name = "mat_mean"
    /\ recv = RedMatrix
    /\ ret = Returned(0)

\* C19: a precondition violation of a public operation other than direct
\* positional indexing (Index / IndexMut, row(i)) is reported as a
\* TensorError value, never by a panic: sum, mean, max, min, argmax and
\* col do not panic.
C19_NoPanic ==
    op.name \in {"mat_sum", "mat_mean", "mat_max", "mat_min", "mat_argmax", "col"}
        => ret.tag # "Panic"

\* C23: Tensor::new(d, r) has shape (d, r, N) with every element zero, and
\* scalar_mul(s) returns a new tensor of the identical shape whose every
\* element is the corresponding source element times s, leaving the
\* source tensor unchanged.
C23_TensorNewAndScalarMul ==
    /\ op.name = "init" =>
          /\ Tensor_shape(recv) \in (0..TenDepths) \X (0..TenRows) \X TenCols
          /\ Len(recv.data) = Tensor_shape(recv)[1]
          /\ \A d \in 1..Len(recv.data) :
                /\ WellShaped(recv.data[d], Tensor_shape(recv)[2],
                              Tensor_shape(recv)[3])
                /\ \A i \in 1..recv.rows : \A j \in 1..recv.N :
                      recv.data[d].data[i][j] = 0
    /\ op.name = "tensor_scalar_mul" =>
          /\ Tensor_shape(ret) = Tensor_shape(old)
          /\ Len(ret.data) = Len(old.data)
          /\ \A d \in 1..Len(old.data) :
                /\ WellShaped(ret.data[d], old.data[d].rows, old.N)
                /\ \A i \in 1..old.data[d].rows : \A j \in 1..old.N :
                      ret.data[d].data[i][j]
                         = old.data[d].data[i][j] * op.args[1]
          /\ recv = old

\* scalar_mul(0) on a tensor of two slices whose second slice holds a 1.
C23_Witness ==
    /\ op = Call("tensor_scalar_mul", <<0>>)
    /\ old.depths = 2 /\ old.rows = 1
    /\ Len(old.data[2].data) = 1
    /\ old.data[2].data[1][1] = 1
    /\ ret.data[2].data[1][1] = 0
    /\ recv = old

\* The product of the first n diagonal entries of the working matrix w.
RECURSIVE DiagonalProduct(_, _)
DiagonalProduct(w, n) ==
    IF n = 0 THEN Exact(1)
    ELSE exact_mul(DiagonalProduct(w, n - 1), w.data[n][n])

\* A step of determinant() that selects the pivot of column k.
PivotStep == pc = "loop" /\ k < lu.rows /\ pc' \in {"elim", "done"}

\* C27: at every elimination step k of determinant() the pivot row holds
\* an entry of largest absolute value in column k among rows k .. rows - 1,
\* the lowest such row on ties; the rows are swapped exactly when that row
\* differs from k, and each swap multiplies the running determinant by -1:
\* the determinant starts at one, every step multiplies it by the pivot,
\* nothing else changes it, and the value returned after the last step is
\* the product of the pivots up to the sign of the swaps.
C27_PartialPivoting ==
    [][
       /\ PivotStep =>
            LET mr == max_row'
                sign == IF mr # k THEN Exact(-1) ELSE Exact(1)
            IN  /\ mr \in k..(lu.rows - 1)
                /\ \A i \in k..(lu.rows - 1) :
                      ~exact_gt(exact_abs(lu.data[i + 1][k + 1]),
                                exact_abs(lu.data[mr + 1][k + 1]))
                /\ \A i \in k..(mr - 1) :
                      exact_gt(exact_abs(lu.data[mr + 1][k + 1]),
                               exact_abs(lu.data[i + 1][k + 1]))
                /\ lu'.rows = lu.rows
                /\ \A i \in 0..(lu.rows - 1) :
                      lu'.data[i + 1] =
                         IF i = k THEN lu.data[mr + 1]
                         ELSE IF i = mr THEN lu.data[k + 1]
                         ELSE lu.data[i + 1]
                /\ pivot' = lu.data[mr + 1][k + 1]
                /\ det' = IF pivot' = Exact(0)
                          THEN exact_mul(sign, det)
                          ELSE exact_mul(sign, exact_mul(det, pivot'))
       /\ (pc = "idle" /\ pc' = "loop") => det' = Exact(1)
       /\ pc = "elim" => det' = det
       /\ (pc = "loop" /\ k >= lu.rows) =>
            /\ ret' = Ok(det)
            /\ det \in {DiagonalProduct(lu, lu.rows),
                        exact_neg(DiagonalProduct(lu, lu.rows))}
    ]_vars

\* Step 1 of the 3 x 3 example swapped rows 1 and 2: the running
\* determinant is -(6 * 23/3).
C27_Witness ==
    /\ op.name = "determinant"
    /\ recv = ThreeByThree
    /\ pc = "elim"
    /\ k = 1 /\ max_row = 2
    /\ pivot = <<23, 3>>
    /\ det = Exact(-46)

\* C28: in determinant() on a square matrix, the pivot selected at step k
\* is zero exactly when every entry of column k in rows k .. rows - 1 of
\* the working matrix is zero; then the function returns Ok(zero) at that
\* step, with no elimination and no further step; the elimination, which
\* divides by the pivot, is only entered with a nonzero pivot.
C28_ZeroPivotReturns ==
    [][
       /\ PivotStep =>
            /\ (pivot' = Exact(0)) <=>
                  (\A i \in k..(lu.rows - 1) : lu.data[i + 1][k + 1] = Exact(0))
            /\ pivot' = Exact(0) =>
                  /\ pc' = "done"
                  /\ ret' = Ok(Exact(0))
                  /\ k' = k
                  /\ \A i \in 1..lu.rows :
                        \E j \in 1..lu.rows : lu'.data[i] = lu.data[j]
            /\ pivot' # Exact(0) => (pc' = "elim" /\ ret' = ret)
       /\ pc = "elim" => pivot # Exact(0)
       /\ pc = "done" => (pc' = "done" /\ lu' = lu /\ ret' = ret)
    ]_vars

\* The singular 2 x 2 example returned zero at step 1, where the pivot
\* left by the elimination of step 0 is zero.
C28_Witness ==
    /\ op.name = "determinant"
    /\ recv = Singular
    /\ pc = "done"
    /\ k = 1
    /\ pivot = Exact(0)
    /\ lu.data[2] = <<Exact(1), Exact(0)>>
    /\ ret = Ok(Exact(0))

\* C25: from_f64(value) returns None when value is not representable in
\* the target type (a negative value for an unsigned type) and
\* Some(converted value) when it is.  A value with a fraction, which an
\* integer type can only hold rounded, may give either.
C25_FromF64Representable ==
    LET whole == other[2] = 1
    IN  /\ op.name = "i32_from_f64" =>
              IF whole THEN ret = Some(other[1])
              ELSE ret = None \/ ret.tag = "Some"
        /\ op.name = "u32_from_f64" =>
              IF other[1] < 0 THEN ret = None
              ELSE IF whole THEN ret = Some(other[1])
              ELSE ret = None \/ ret.tag = "Some"
        /\ op.name = "f64_from_f64" => ret = Some(other)

\* An f64 of the model's form has absolute value below 1e-6 exactly when
\* it is zero: its value is a whole number.
f64_below_1e_6(x) == x.big = 0 /\ x.small = 0

\* C26: the f64 product of the 1x4 matrix [1e16, 1, 1, -1e16] with the 4x1
\* column [1, 1, -1, 1], accumulated with Kahan summation, is a 1x1 matrix
\* whose element has absolute value below 1e-6.
C26_KahanStability ==
    (op.name = "mul_f64" /\ recv = KahanA /\ other = KahanB) =>
        /\ ret.tag = "Ok"
        /\ shape(ret.value) = <<1, 1>>
        /\ f64_below_1e_6(ret.value.data[1][1])

C26_Witness ==
    /\ op.name = "mul_f64"
    /\ recv = KahanA
    /\ other = KahanB
    /\ ret = Ok(Lit(<<<<f64_zero>>>>))

\* The stored row count is the length of the stored row sequence, and
\* shape() reports that length with N.
MatrixShaped(m) ==
    /\ m.rows = Len(m.data)
    /\ shape(m) = <<Len(m.data), m.N>>

\* C21: after new or from_vectors and any sequence of add, scalar_mul,
\* hadamard_product, transpose, multiplication, swap_rows and element or
\* row stores through get_mut, get_at_mut and index_mut, the matrix in use
\* and every matrix a call returned have rows equal to the length of the
\* stored row sequence and shape() = (that length, N).
C21_MatrixInvariant ==
    /\ MatrixShaped(recv)
    /\ MatrixShaped(old)
    /\ (/\ op.name \in {"scalar_mul", "hadamard_product", "add", "mul", "transpose"}
        /\ ret # None
        /\ ret.tag \in {"Ok", "Returned"}) => MatrixShaped(ret.value)

C21_Witness ==
    /\ op.name = "transpose"
    /\ ret # None
    /\ ret.tag = "Ok"
    /\ old.rows = 1
    /\ old.N = 2
    /\ shape(ret.value) = <<2, 1>>
    /\ Len(ret.value.data) = 2

\* The operations that store into the receiver.
Mutators == {"swap_rows", "get_mut", "get_at_mut", "index_mut"}

\* C22: only swap_rows and the mutable accessors change the receiver:
\* after scalar_mul, hadamard_product, mat_vec_mul, transpose, a reduction
\* or a by-reference multiplication, and at every step inside determinant,
\* swaps and elimination included, the receiver is what it was at the call.
C22_OnlyMutatorsMutate ==
    /\ recv # old => op.name \in Mutators
    /\ op.name \in {"scalar_mul", "hadamard_product", "mat_vec_mul",
                    "transpose", "determinant", "sum", "mean", "max", "min",
                    "argmax", "mul"} => recv = old

C22_Witness ==
    /\ op.name = "determinant"
    /\ pc = "elim"
    /\ max_row # k
    /\ lu # recv
    /\ recv = old

\* C24: get_at and get_at_mut return Err(OutOfBounds) exactly when
\* row >= rows or col >= N; the row index with size = rows is reported
\* when the row is out of range, otherwise the column index with size = N;
\* in range they return the element at (row, col).
C24_GetAtBounds ==
    op.name \in {"get_at", "get_at_mut"} =>
        LET row == op.args[1]
            col == op.args[2]
        IN  /\ ret.tag = "Err" <=> (row >= old.rows \/ col >= old.N)
            /\ row >= old.rows =>
                  ret = Err(OutOfBounds(ToString(row), ToString(old.rows)))
            /\ (row < old.rows /\ col >= old.N) =>
                  ret = Err(OutOfBounds(ToString(col), ToString(old.N)))
            /\ (row < old.rows /\ col < old.N) =>
                  ret = Ok(old.data[row + 1][col + 1])

C24_Witness ==
    /\ op.name = "get_at"
    /\ op.args = <<1, 2>>
    /\ shape(old) = <<1, 2>>
    /\ ret = Err(OutOfBounds("1", "1"))

\* C29: on a square integer matrix determinant() returns the exact
\* mathematical determinant, -2 for [[1, 2], [3, 4]].
C29_IntegerDeterminantExact ==
    (/\ op.name = "determinant"
     /\ pc = "idle"
     /\ ret # None
     /\ ret.tag = "Ok") => ret.value = MathDet(recv.data)

\* C30: reductions over empty containers do not fail: on a vector with
\* N = 0 sum(), max() and min() return zero and argmax() returns 0; on a
\* matrix with no rows sum(), max() and min() return zero and argmax()
\* returns (0, 0).
C30_EmptyReductions ==
    /\ (op.name \in {"row_sum", "row_max", "row_min", "row_argmax"}
            /\ op.args[1] < recv.rows /\ recv.N = 0) => ret = Returned(0)
    /\ (op.name \in {"mat_sum", "mat_max", "mat_min"} /\ recv.rows = 0) =>
            ret = Returned(zero)
    /\ (op.name = "mat_argmax" /\ recv.rows = 0) => ret = Returned(<<0, 0>>)

C30_Witness ==
    /\ op.name = "mat_argmax"
    /\ shape(recv) = <<0, 1>>
    /\ ret = Returned(<<0, 0>>)

====
